---- MODULE Spec2Model ----
(***************************************************************************)
(* A model of the Intrinsics PF2e Level Up Wizard: the content cache       *)
(* (DataProvider), the prerequisite validator (checkPrerequisites), the    *)
(* build-plan store (BuildPlanManager, BuildPlannerApp) and the level      *)
(* applicator (LevelUpWizardApp._onSubmit).  Each component has its own    *)
(* specification over its own variables; the variables of the other        *)
(* components are held at their initial value.                             *)
(***************************************************************************)
EXTENDS Integers, Sequences, FiniteSets, TLC

VARIABLES
  \* ---- DataProvider (src/unnamed/part_000) ----
  packs,      \* the compendium keys game.packs.get() finds
  failing,    \* the compendiums whose getDocuments() rejects
  cache,      \* this.cache: kind -> Null or the loaded list
  loading,    \* this.loading: kind -> 0 (no entry) or the id of the in-flight load
  loads,      \* the load promises created so far, by id
  reads,      \* source -> number of getDocuments() calls issued on it
  calls,      \* the getFeats()/getSpells() calls issued so far: where each one is
  clears,     \* number of invalidations of feats or spells so far
  last,       \* what the call that finished last was handed
  \* ---- checkPrerequisites (src/scripts/helpers/feat-helpers.js) ----
  prereqs,    \* feat.system.prerequisites.value: the lines to check
  pactor,     \* the actor: ability scores, owned feat names, skill ranks
  pidx,       \* number of lines the loop has handled
  missing,    \* the lines found unmet
  unknown,    \* the lines that could not be decided
  meets,      \* the returned meets: "true", "false", "null" ("none" before the return)
  ppc,        \* "loop" or "done"
  \* ---- LevelUpWizardApp._onSubmit (src/scripts/level-up-wizard-app.js) ----
  choices,      \* this.stateManager.choices
  targetLevel,  \* this.targetLevel
  classSlug,    \* the slug of the actor's class item, Null without one
  entry,        \* the actor's class spellcasting entry, NoEntry without one
  tracksSource, \* whether created items report their compendium source
  alevel,       \* actor.system.details.level.value
  items,        \* the actor's feat and spell items, in creation order
  skills,       \* actor.system.skills: skill -> rank
  boosts,       \* actor.system.build.attributes.boosts: boost set -> abilities
  slots,        \* the entry's system.slots: rank -> [max, value]
  apc,          \* where _onSubmit is: "idle", a step, "complete" or "failed"
  submits,      \* number of _onSubmit runs started
  prevDone,     \* whether the run before the current one ran to its end
  before,       \* the sheet when the current run started
  created,      \* feat and spell items the current run has created
  \* ---- exportPlan / importPlan of a new plan (src/scripts/build-plan-manager.js) ----
  rtPlan,       \* the plan createNewPlan returned
  rtJson,       \* the text exportPlan returned
  rtBack,       \* what importPlan did with that text
  rtpc,         \* "created", "exported" or "imported"
  \* ---- BuildPlannerApp (src/unnamed/part_000) ----
  actorLevel,   \* actor.system.details.level.value
  worldRules,   \* the variant rules detectVariantRules() reports
  persisted,    \* the actor's buildPlan flag, JsUndefined without one
  buildPlan,    \* this.buildPlan
  timers,       \* the pending timeouts: id and time since set
  saveTimeout,  \* this._saveTimeout: the id of the timer set last, 0 before
  nextTimer,    \* the id setTimeout() returns next
  sinceEdit,    \* time since the last _autoSave() call, up to Delay
  firedAfter,   \* sinceEdit when the timeout callback last ran
  saving,       \* the setFlag() writes under way, oldest first
  lastSaveOk,   \* whether the write that settled last succeeded
  lastImport,   \* the import that has just run, NoImport otherwise
  clicks,       \* number of clicks handled: choices set, saves, imports
  \* ---- the helper functions called on their own (src/scripts/helpers) ----
  qhost,        \* game: the registered settings and the active modules
  qactor,       \* the actor a helper is called with
  qcall         \* the call made last: function, arguments and what it returned

cacheVars == <<packs, failing, cache, loading, loads, reads, calls, clears, last>>

prereqVars == <<prereqs, pactor, pidx, missing, unknown, meets, ppc>>

applyVars == <<choices, targetLevel, classSlug, entry, tracksSource, alevel, items,
               skills, boosts, slots, apc, submits, prevDone, before, created>>

roundTripVars == <<rtPlan, rtJson, rtBack, rtpc>>

plannerVars == <<actorLevel, worldRules, persisted, buildPlan, timers, saveTimeout, nextTimer,
                 sinceEdit, firedAfter, saving, lastSaveOk, lastImport, clicks>>

queryVars == <<qhost, qactor, qcall>>

vars == <<cacheVars, prereqVars, applyVars, roundTripVars, plannerVars, queryVars>>

\* What the actions of one component leave alone.
notCache == <<prereqVars, applyVars, roundTripVars, plannerVars, queryVars>>
notPrereq == <<cacheVars, applyVars, roundTripVars, plannerVars, queryVars>>
notApply == <<cacheVars, prereqVars, roundTripVars, plannerVars, queryVars>>
notRoundTrip == <<cacheVars, prereqVars, applyVars, plannerVars, queryVars>>
notPlanner == <<cacheVars, prereqVars, applyVars, roundTripVars, queryVars>>
notQuery == <<cacheVars, prereqVars, applyVars, roundTripVars, plannerVars>>

Null == "null"

\* A cache entry that is null (an empty loaded list is not null: [] is truthy).
NoList == [load |-> 0, docs |-> <<>>]

(***************************************************************************)
(* Bounds of the model.                                                    *)
(***************************************************************************)
MaxCalls == 3
MaxClears == 1
MaxPrereqs == 2
MaxSubmits == 2
MaxClicks == 2

(***************************************************************************)
(*                       DataProvider: content cache                       *)
(***************************************************************************)
Kinds == {"feats", "spells"}

\* The key under which _loadFeats / _loadSpells keep the cached list.
CacheKeys == {"feats", "spells", "classes", "ancestries", "heritages", "backgrounds", "deities"}

\* The sources each loader reads, in the order of the code.
Sources(kind) ==
  IF kind = "feats"
  THEN <<"pf2e.feats-srd", "pf2e-playtest-data.impossible-playtest-class-feats", "extra.feats">>
  ELSE <<"pf2e.spells-srd", "extra.spells">>

AllSources == {Sources(k)[i] : k \in Kinds, i \in 1..2} \cup {Sources("feats")[3]}

\* A rejected getDocuments() is caught for the playtest and the additional
\* compendiums; the read of the default compendium is not inside a try.
Guarded(src) == src \notin {"pf2e.feats-srd", "pf2e.spells-srd"}

\* The documents a source returns: id, type and system.level.value.
Doc(i, t, l) == [id |-> i, type |-> t, level |-> l]

PackDocs(src) ==
  CASE src = "pf2e.feats-srd" -> <<Doc(1, "feat", 1), Doc(2, "feat", 2), Doc(3, "action", 1)>>
    [] src = "pf2e-playtest-data.impossible-playtest-class-feats" -> <<Doc(4, "feat", 1)>>
    [] src = "extra.feats" -> <<Doc(5, "feat", 2), Doc(6, "spell", 1)>>
    [] src = "pf2e.spells-srd" -> <<Doc(7, "spell", 1), Doc(8, "spell", 2), Doc(9, "feat", 1)>>
    [] OTHER -> <<Doc(10, "spell", 1)>>

ItemType(kind) == IF kind = "feats" THEN "feat" ELSE "spell"

\* collection.filter(item => item.type === 'feat')
OfType(docs, t) == LET Is(d) == d.type = t IN SelectSeq(docs, Is)

\* The filters a caller passes: none, or a level bound (getFeats: maxLevel,
\* getSpells: rank).
NoFilter == 0
FilterValues == {NoFilter, 1}

ApplyFilters(kind, docs, f) ==
  IF f = NoFilter THEN docs
  ELSE IF kind = "feats"
       THEN LET Keep(d) == d.level <= f IN SelectSeq(docs, Keep)
       ELSE LET Keep(d) == d.level = f IN SelectSeq(docs, Keep)

\* The loader without the `if (compendium)` tests: the next configured source
\* is read whether game.packs has it or not.
NextSourceNoLookup(kind, from) ==
  IF from < Len(Sources(kind)) THEN from + 1 ELSE 0

\* The index of the first configured source after `from` that game.packs has.
NextSource(kind, from) ==
  LET S == {i \in (from + 1)..Len(Sources(kind)) : Sources(kind)[i] \in packs}
  IN IF S = {} THEN 0 ELSE CHOOSE i \in S : \A j \in S : i <= j

\* The async body of a loader, run from the source after `from` with the
\* documents gathered so far, up to its next await (a getDocuments() call) or
\* to its end (the cache is set and the promise resolves).
RunLoader(id, kind, docs, from, stale, isNew) ==
  LET n == NextSource(kind, from)
      rec == [kind |-> kind, docs |-> docs, stale |-> stale,
              idx |-> n, status |-> IF n = 0 THEN "resolved" ELSE "reading"]
  IN /\ loads' = IF isNew THEN Append(loads, rec) ELSE [loads EXCEPT ![id] = rec]
     /\ IF n = 0
        THEN /\ cache' = [cache EXCEPT ![kind] = [load |-> id, docs |-> docs]]
             /\ reads' = reads
        ELSE /\ cache' = cache
             /\ reads' = [reads EXCEPT ![Sources(kind)[n]] = @ + 1]

\* What a finished call handed to its caller.
Result(kind, f, l, outcome, docs, stale) ==
  [kind |-> kind, filter |-> f, from |-> l, outcome |-> outcome, docs |-> docs,
   stale |-> stale]

NoResult == Result(Null, NoFilter, 0, Null, <<>>, FALSE)

\* A call that has returned: its kind and how it was served.
Finished(kind, via) == [pc |-> "done", kind |-> kind, via |-> via, load |-> 0, stale |-> FALSE]

\* _loadFeats() without the this.loading lookup: every call that misses the
\* cache starts a load of its own.
LoadKindNoJoin(kind, f) ==
  IF cache[kind] # NoList
  THEN /\ calls' = Append(calls, Finished(kind, "cache"))
       /\ last' = Result(kind, f, cache[kind].load, "resolved",
                         ApplyFilters(kind, cache[kind].docs, f),
                         loads[cache[kind].load].stale)
       /\ UNCHANGED <<cache, loading, loads, reads>>
  ELSE /\ RunLoader(Len(loads) + 1, kind, <<>>, 0, FALSE, TRUE)
       /\ loading' = [loading EXCEPT ![kind] = Len(loads) + 1]
       /\ calls' = Append(calls, [pc |-> "initiator", kind |-> kind, via |-> "initiator",
                                  load |-> Len(loads) + 1, stale |-> FALSE])
       /\ UNCHANGED last

\* _loadFeats() / _loadSpells() up to its await: a cached list is returned at
\* once, an in-flight load is joined, otherwise a load starts and its promise
\* is registered in this.loading.  f is the filter object of the get call, which
\* is read only after the await.
LoadKind(kind, f) ==
  IF cache[kind] # NoList
  THEN /\ calls' = Append(calls, Finished(kind, "cache"))
       /\ last' = Result(kind, f, cache[kind].load, "resolved",
                         ApplyFilters(kind, cache[kind].docs, f),
                         loads[cache[kind].load].stale)
       /\ UNCHANGED <<cache, loading, loads, reads>>
  ELSE IF loading[kind] # 0
  THEN /\ calls' = Append(calls, [pc |-> "joined", kind |-> kind, via |-> "joined",
                                  load |-> loading[kind],
                                  stale |-> loads[loading[kind]].stale])
       /\ UNCHANGED <<cache, loading, loads, reads, last>>
  ELSE /\ RunLoader(Len(loads) + 1, kind, <<>>, 0, FALSE, TRUE)
       /\ loading' = [loading EXCEPT ![kind] = Len(loads) + 1]
       /\ calls' = Append(calls, [pc |-> "initiator", kind |-> kind, via |-> "initiator",
                                  load |-> Len(loads) + 1, stale |-> FALSE])
       /\ UNCHANGED last

\* getFeats(filters): await this._loadFeats(), then filter.
getFeats(f) ==
  /\ Len(calls) < MaxCalls
  /\ LoadKind("feats", f)
  /\ UNCHANGED <<packs, failing, clears>>
  /\ UNCHANGED notCache

\* getSpells(filters): await this._loadSpells(), then filter.
getSpells(f) ==
  /\ Len(calls) < MaxCalls
  /\ LoadKind("spells", f)
  /\ UNCHANGED <<packs, failing, clears>>
  /\ UNCHANGED notCache

\* A pending getDocuments() of load l settles.  On success its documents of
\* the loader's type are appended; a rejection is skipped when the read is
\* inside a try, and rejects the load otherwise.
ReadSettles(l) ==
  /\ l \in 1..Len(loads)
  /\ loads[l].status = "reading"
  /\ LET kind == loads[l].kind
         src == Sources(kind)[loads[l].idx]
     IN IF src \notin failing
        THEN RunLoader(l, kind, loads[l].docs \o OfType(PackDocs(src), ItemType(kind)),
                       loads[l].idx, loads[l].stale, FALSE)
        ELSE IF Guarded(src)
        THEN RunLoader(l, kind, loads[l].docs, loads[l].idx, loads[l].stale, FALSE)
        ELSE /\ loads' = [loads EXCEPT ![l].status = "rejected"]
             /\ UNCHANGED <<cache, reads>>
  /\ UNCHANGED <<packs, failing, loading, calls, clears, last>>
  /\ UNCHANGED notCache

\* A caller resumes after `await loadPromise` (the initiator, whose finally
\* block deletes the loading entry) or after the joined promise settled, and
\* getFeats / getSpells filters what it got with the call's filters f.
Resume(c, f) ==
  /\ c \in 1..Len(calls)
  /\ calls[c].pc \in {"initiator", "joined"}
  /\ loads[calls[c].load].status # "reading"
  /\ loading' = IF calls[c].pc = "initiator"
                THEN [loading EXCEPT ![calls[c].kind] = 0]
                ELSE loading
  /\ calls' = [calls EXCEPT ![c] = Finished(calls[c].kind, calls[c].via)]
  /\ LET l == calls[c].load
     IN IF loads[l].status = "resolved"
        THEN last' = Result(calls[c].kind, f, l, "resolved",
                            ApplyFilters(calls[c].kind, loads[l].docs, f),
                            calls[c].stale)
        ELSE last' = Result(calls[c].kind, f, l, "rejected", <<>>,
                            calls[c].stale)
  /\ UNCHANGED <<packs, failing, cache, loads, reads, clears>>
  /\ UNCHANGED notCache

\* The loads of the given kinds that are in flight at an invalidation started
\* before it (bookkeeping of the model; the code keeps no such mark).
MarkStale(kinds) ==
  [l \in 1..Len(loads) |->
     IF loads[l].kind \in kinds /\ loads[l].status = "reading" THEN [loads[l] EXCEPT !.stale = TRUE] ELSE loads[l]]

\* clearCache(): every entry of this.cache becomes null.
clearCache ==
  /\ clears < MaxClears
  /\ clears' = clears + 1
  /\ cache' = [k \in Kinds |-> NoList]
  /\ loads' = MarkStale(Kinds)
  /\ UNCHANGED <<packs, failing, loading, reads, calls, last>>
  /\ UNCHANGED notCache

\* clearCacheFor(type): the entry of a key this.cache has becomes null.
clearCacheFor(type) ==
  /\ clears < MaxClears
  /\ IF type \in CacheKeys
     THEN /\ cache' = [k \in Kinds |-> IF k = type THEN NoList ELSE cache[k]]
          /\ loads' = MarkStale({type})
          /\ clears' = IF type \in Kinds THEN clears + 1 ELSE clears
     ELSE UNCHANGED <<cache, loads, clears>>
  /\ UNCHANGED <<packs, failing, loading, reads, calls, last>>
  /\ UNCHANGED notCache

\* The installations considered: which compendiums exist and which of them
\* cannot be read.
Install(p, f) == [packs |-> p, failing |-> f]

Installs ==
  { Install(AllSources, {}),
    Install(AllSources \ {"extra.feats", "pf2e.spells-srd"}, {}),
    Install({"pf2e.feats-srd", "extra.spells"}, {}),
    Install({}, {}),
    Install(AllSources, {"extra.feats", "extra.spells"}),
    Install(AllSources, {"pf2e.feats-srd", "pf2e.spells-srd"}) }

InitCache ==
  /\ \E i \in Installs : packs = i.packs /\ failing = i.failing
  /\ cache = [k \in Kinds |-> NoList]
  /\ loading = [k \in Kinds |-> 0]
  /\ loads = <<>>
  /\ reads = [s \in AllSources |-> 0]
  /\ calls = <<>>
  /\ clears = 0
  /\ last = NoResult

\* The cache variables while another component is studied.
IdleCache ==
  /\ packs = {} /\ failing = {}
  /\ cache = [k \in Kinds |-> NoList]
  /\ loading = [k \in Kinds |-> 0]
  /\ loads = <<>>
  /\ reads = [s \in AllSources |-> 0]
  /\ calls = <<>>
  /\ clears = 0
  /\ last = NoResult

NextCache ==
  \/ \E f \in FilterValues : getFeats(f)
  \/ \E f \in FilterValues : getSpells(f)
  \/ \E l \in 1..MaxCalls : ReadSettles(l)
  \/ \E c \in 1..MaxCalls, f \in FilterValues : Resume(c, f)
  \/ clearCache
  \/ \E t \in {"feats", "spells", "classes", "bogus"} : clearCacheFor(t)

(***************************************************************************)
(*               checkPrerequisites: prerequisite validator                *)
(***************************************************************************)
\* A prerequisite line, by what the code's pattern matches find in its
\* lower-cased text: the first "<ability> <number>" match (abilityMatch), the
\* feat names that occur in it as whole words, the keywords it includes and
\* the skill names it includes.  value is prereq.value.
Line(value, ability, score, featNames, words, skillNames) ==
  [value |-> value, ability |-> ability, score |-> score, featNames |-> featNames,
   words |-> words, skillNames |-> skillNames]

\* The lines considered.  A text that includes "untrained" includes "trained".
Lines ==
  { Line("", "none", 0, {}, {}, {}),
    Line("Strength 14", "strength", 14, {}, {}, {}),
    Line("Power Attack", "none", 0, {"power attack"}, {}, {}),
    Line("Shield Block feat", "none", 0, {"shield block"}, {"feat"}, {}),
    Line("Fighter Dedication", "none", 0, {"fighter dedication"}, {"dedication"}, {}),
    Line("expert in Athletics", "none", 0, {}, {"expert"}, {"athletics"}),
    Line("trained in Lore", "none", 0, {}, {"trained"}, {"lore"}),
    Line("untrained in Stealth", "none", 0, {}, {"untrained", "trained"}, {"stealth"}),
    Line("master in a skill", "none", 0, {}, {"master"}, {}),
    Line("elf ancestry", "none", 0, {}, {"ancestry"}, {}),
    Line("ability to cast spells", "none", 0, {}, {}, {}) }

\* ability.substring(0, 3)
AbilityKey(ability) ==
  CASE ability = "strength" -> "str" [] ability = "dexterity" -> "dex"
    [] ability = "constitution" -> "con" [] ability = "intelligence" -> "int"
    [] ability = "wisdom" -> "wis" [] OTHER -> "cha"

\* const skills = [...]: the skill names the proficiency check looks for, in order.
SkillList ==
  <<"acrobatics", "arcana", "athletics", "crafting", "deception", "diplomacy",
    "intimidation", "lore", "medicine", "nature", "occultism", "performance",
    "religion", "society", "stealth", "survival", "thievery">>

\* const rankNames = [...]
RankNames == <<"untrained", "trained", "expert", "master", "legendary">>

\* rankNames.findIndex(r => prereqText.includes(r)): -1 when none is included.
RequiredRank(line) ==
  LET S == {i \in 1..Len(RankNames) : RankNames[i] \in line.words}
  IN IF S = {} THEN -1 ELSE (CHOOSE i \in S : \A j \in S : i <= j) - 1

\* The actors considered: ability scores, owned feat names (lower case) and the
\* skills of actor.system.skills with their ranks (lore is no key of it).
Actor(str, feats, athletics) ==
  [abilities |-> [a \in {"str", "dex", "con", "int", "wis", "cha"} |->
                    IF a = "str" THEN str ELSE 10],
   feats |-> feats,
   skills |-> [acrobatics |-> 0, athletics |-> athletics, stealth |-> 0]]

PrereqActors ==
  { Actor(10, {}, 0),
    Actor(16, {"power attack", "shield block"}, 2),
    Actor(14, {"fighter dedication"}, 1) }

\* The first skill of the list that the text includes and the actor has data
\* for ("" when there is none).
FoundSkill(line, actor) ==
  LET S == {i \in 1..Len(SkillList) :
              SkillList[i] \in line.skillNames /\ SkillList[i] \in DOMAIN actor.skills}
  IN IF S = {} THEN "" ELSE SkillList[CHOOSE i \in S : \A j \in S : i <= j]

\* One pass of the for loop of checkPrerequisites: "missing", "unknown" or
\* "met" (the line is pushed to neither list).
Classify(line, actor) ==
  LET hasFeat == line.featNames \cap actor.feats # {}
      skill == FoundSkill(line, actor)
  IN IF line.value = "" THEN "unknown"
     ELSE IF line.ability # "none"
     THEN IF actor.abilities[AbilityKey(line.ability)] < line.score
          THEN "missing" ELSE "met"
     ELSE IF ~hasFeat /\ line.words \cap {"feat", "dedication", "archetype"} # {}
     THEN "missing"
     ELSE IF hasFeat THEN "met"
     ELSE IF line.words \cap {"trained", "expert", "master", "legendary"} # {} /\ skill # ""
     THEN IF RequiredRank(line) # -1 /\ actor.skills[skill] < RequiredRank(line)
          THEN "missing" ELSE "met"
     ELSE "unknown"

\* prereq.value || 'Unknown prerequisite'
UnknownLabel(line) == IF line.value = "" THEN "Unknown prerequisite" ELSE line.value

\* The body of the for loop for the next line.
CheckLine ==
  /\ ppc = "loop"
  /\ pidx < Len(prereqs)
  /\ LET line == prereqs[pidx + 1]
         c == Classify(line, pactor)
     IN /\ missing' = IF c = "missing" THEN Append(missing, line.value) ELSE missing
        /\ unknown' = IF c = "unknown" THEN Append(unknown, UnknownLabel(line)) ELSE unknown
  /\ pidx' = pidx + 1
  /\ UNCHANGED <<prereqs, pactor, meets, ppc>>
  /\ UNCHANGED notPrereq

\* An aggregation that lets an unmet line win over an undecided one.
MeetsStatusMissingFirst(m, u) ==
  IF Len(m) > 0 THEN "false" ELSE IF Len(u) > 0 THEN "null" ELSE "true"

\* An aggregation that overlooks a single unmet line.
MeetsStatusOffByOne(m, u) ==
  IF Len(u) > 0 THEN "null" ELSE IF Len(m) > 1 THEN "false" ELSE "true"

\* The final state: null if any line is unknown, else false if any is missing,
\* else true.
MeetsStatus(m, u) ==
  IF Len(u) > 0 THEN "null" ELSE IF Len(m) > 0 THEN "false" ELSE "true"

\* The return of checkPrerequisites after the loop (an empty list returns
\* { meets: true, missing: [], unknown: [] } before it).
ReturnPrereqs ==
  /\ ppc = "loop"
  /\ pidx = Len(prereqs)
  /\ meets' = MeetsStatus(missing, unknown)
  /\ ppc' = "done"
  /\ UNCHANGED <<prereqs, pactor, pidx, missing, unknown>>
  /\ UNCHANGED notPrereq

RECURSIVE SeqsUpTo(_, _)
SeqsUpTo(S, n) ==
  IF n = 0 THEN {<<>>}
  ELSE LET R == SeqsUpTo(S, n - 1)
       IN R \cup {Append(r, x) : r \in {q \in R : Len(q) = n - 1}, x \in S}

InitPrereq ==
  /\ prereqs \in SeqsUpTo(Lines, MaxPrereqs)
  /\ pactor \in PrereqActors
  /\ pidx = 0
  /\ missing = <<>>
  /\ unknown = <<>>
  /\ meets = "none"
  /\ ppc = "loop"

\* The prerequisite variables while another component is studied.
IdlePrereq ==
  /\ prereqs = <<>>
  /\ pactor = Actor(10, {}, 0)
  /\ pidx = 0
  /\ missing = <<>>
  /\ unknown = <<>>
  /\ meets = "none"
  /\ ppc = "loop"

NextPrereq ==
  \/ CheckLine
  \/ ReturnPrereqs

(***************************************************************************)
(*        LevelUpWizardApp._onSubmit (scripts/level-up-wizard-app.js)      *)
(***************************************************************************)
\* featTypes: the choice key of each feat category and its location group,
\* in the order Object.entries() walks them.
FeatTypes ==
  << <<"classFeats", "class">>,
     <<"ancestryFeats", "ancestry">>,
     <<"skillFeats", "skill">>,
     <<"generalFeats", "general">>,
     <<"freeArchetypeFeats", "archetype">>,
     <<"ancestryParagonFeats", "xdy_ancestryparagon">>,
     <<"mythicFeats", "mythic">>,
     <<"dualClassFeats", "xdy_dualclass">> >>

\* spellTypes: the choice keys the spell step walks, in order.
SpellTypes ==
  <<"cantrips", "rank1Spells", "rank2Spells", "rank3Spells", "rank4Spells",
    "rank5Spells", "rank6Spells", "rank7Spells", "rank8Spells", "rank9Spells",
    "rank10Spells",
    "additionalRank1Spells", "additionalRank2Spells", "additionalRank3Spells",
    "additionalRank4Spells", "additionalRank5Spells", "additionalRank6Spells",
    "additionalRank7Spells", "additionalRank8Spells", "additionalRank9Spells",
    "additionalRank10Spells">>

\* CLASS_PROGRESSIONS[...].spellSlots: row l is the { rank: slots } object of
\* character level l.
WizardSlots ==
  <<
    (1 :> 2),
    (1 :> 3),
    (1 :> 3 @@ 2 :> 2),
    (1 :> 3 @@ 2 :> 3),
    (1 :> 3 @@ 2 :> 3 @@ 3 :> 2),
    (1 :> 3 @@ 2 :> 3 @@ 3 :> 3),
    (1 :> 3 @@ 2 :> 3 @@ 3 :> 3 @@ 4 :> 2),
    (1 :> 3 @@ 2 :> 3 @@ 3 :> 3 @@ 4 :> 3),
    (1 :> 3 @@ 2 :> 3 @@ 3 :> 3 @@ 4 :> 3 @@ 5 :> 2),
    (1 :> 3 @@ 2 :> 3 @@ 3 :> 3 @@ 4 :> 3 @@ 5 :> 3),
    (1 :> 3 @@ 2 :> 3 @@ 3 :> 3 @@ 4 :> 3 @@ 5 :> 3 @@ 6 :> 2),
    (1 :> 3 @@ 2 :> 3 @@ 3 :> 3 @@ 4 :> 3 @@ 5 :> 3 @@ 6 :> 3),
    (1 :> 3 @@ 2 :> 3 @@ 3 :> 3 @@ 4 :> 3 @@ 5 :> 3 @@ 6 :> 3 @@ 7 :> 2),
    (1 :> 3 @@ 2 :> 3 @@ 3 :> 3 @@ 4 :> 3 @@ 5 :> 3 @@ 6 :> 3 @@ 7 :> 3),
    (1 :> 3 @@ 2 :> 3 @@ 3 :> 3 @@ 4 :> 3 @@ 5 :> 3 @@ 6 :> 3 @@ 7 :> 3 @@ 8 :> 2),
    (1 :> 3 @@ 2 :> 3 @@ 3 :> 3 @@ 4 :> 3 @@ 5 :> 3 @@ 6 :> 3 @@ 7 :> 3 @@ 8 :> 3),
    (1 :> 3 @@ 2 :> 3 @@ 3 :> 3 @@ 4 :> 3 @@ 5 :> 3 @@ 6 :> 3 @@ 7 :> 3 @@ 8 :> 3 @@ 9 :> 2),
    (1 :> 3 @@ 2 :> 3 @@ 3 :> 3 @@ 4 :> 3 @@ 5 :> 3 @@ 6 :> 3 @@ 7 :> 3 @@ 8 :> 3 @@ 9 :> 3),
    (1 :> 3 @@ 2 :> 3 @@ 3 :> 3 @@ 4 :> 3 @@ 5 :> 3 @@ 6 :> 3 @@ 7 :> 3 @@ 8 :> 3 @@ 9 :> 3 @@ 10 :> 1),
    (1 :> 3 @@ 2 :> 3 @@ 3 :> 3 @@ 4 :> 3 @@ 5 :> 3 @@ 6 :> 3 @@ 7 :> 3 @@ 8 :> 3 @@ 9 :> 3 @@ 10 :> 1)
  >>

ClericSlots ==
  <<
    (1 :> 2),
    (1 :> 3),
    (1 :> 3 @@ 2 :> 2),
    (1 :> 3 @@ 2 :> 3),
    (1 :> 3 @@ 2 :> 3 @@ 3 :> 2),
    (1 :> 3 @@ 2 :> 3 @@ 3 :> 3),
    (1 :> 3 @@ 2 :> 3 @@ 3 :> 3 @@ 4 :> 2),
    (1 :> 3 @@ 2 :> 3 @@ 3 :> 3 @@ 4 :> 3),
    (1 :> 3 @@ 2 :> 3 @@ 3 :> 3 @@ 4 :> 3 @@ 5 :> 2),
    (1 :> 3 @@ 2 :> 3 @@ 3 :> 3 @@ 4 :> 3 @@ 5 :> 3),
    (1 :> 3 @@ 2 :> 3 @@ 3 :> 3 @@ 4 :> 3 @@ 5 :> 3 @@ 6 :> 2),
    (1 :> 3 @@ 2 :> 3 @@ 3 :> 3 @@ 4 :> 3 @@ 5 :> 3 @@ 6 :> 3),
    (1 :> 3 @@ 2 :> 3 @@ 3 :> 3 @@ 4 :> 3 @@ 5 :> 3 @@ 6 :> 3 @@ 7 :> 2),
    (1 :> 3 @@ 2 :> 3 @@ 3 :> 3 @@ 4 :> 3 @@ 5 :> 3 @@ 6 :> 3 @@ 7 :> 3),
    (1 :> 3 @@ 2 :> 3 @@ 3 :> 3 @@ 4 :> 3 @@ 5 :> 3 @@ 6 :> 3 @@ 7 :> 3 @@ 8 :> 2),
    (1 :> 3 @@ 2 :> 3 @@ 3 :> 3 @@ 4 :> 3 @@ 5 :> 3 @@ 6 :> 3 @@ 7 :> 3 @@ 8 :> 3),
    (1 :> 3 @@ 2 :> 3 @@ 3 :> 3 @@ 4 :> 3 @@ 5 :> 3 @@ 6 :> 3 @@ 7 :> 3 @@ 8 :> 3 @@ 9 :> 2),
    (1 :> 3 @@ 2 :> 3 @@ 3 :> 3 @@ 4 :> 3 @@ 5 :> 3 @@ 6 :> 3 @@ 7 :> 3 @@ 8 :> 3 @@ 9 :> 3),
    (1 :> 3 @@ 2 :> 3 @@ 3 :> 3 @@ 4 :> 3 @@ 5 :> 3 @@ 6 :> 3 @@ 7 :> 3 @@ 8 :> 3 @@ 9 :> 3 @@ 10 :> 1),
    (1 :> 3 @@ 2 :> 3 @@ 3 :> 3 @@ 4 :> 3 @@ 5 :> 3 @@ 6 :> 3 @@ 7 :> 3 @@ 8 :> 3 @@ 9 :> 3 @@ 10 :> 1)
  >>

MagusSlots ==
  <<
    (1 :> 1),
    (1 :> 2),
    (1 :> 2 @@ 2 :> 1),
    (1 :> 2 @@ 2 :> 2),
    (2 :> 2 @@ 3 :> 2),
    (2 :> 2 @@ 3 :> 2),
    (3 :> 2 @@ 4 :> 2),
    (3 :> 2 @@ 4 :> 2),
    (4 :> 2 @@ 5 :> 2),
    (4 :> 2 @@ 5 :> 2),
    (5 :> 2 @@ 6 :> 2),
    (5 :> 2 @@ 6 :> 2),
    (6 :> 2 @@ 7 :> 2),
    (6 :> 2 @@ 7 :> 2),
    (7 :> 2 @@ 8 :> 2),
    (7 :> 2 @@ 8 :> 2),
    (8 :> 2 @@ 9 :> 2),
    (8 :> 2 @@ 9 :> 2),
    (8 :> 2 @@ 9 :> 2),
    (8 :> 2 @@ 9 :> 2)
  >>

\* lines 38-60
SorcererSlots ==
  <<
    (1 :> 3),
    (1 :> 4),
    (1 :> 4 @@ 2 :> 3),
    (1 :> 4 @@ 2 :> 4),
    (1 :> 4 @@ 2 :> 4 @@ 3 :> 3),
    (1 :> 4 @@ 2 :> 4 @@ 3 :> 4),
    (1 :> 4 @@ 2 :> 4 @@ 3 :> 4 @@ 4 :> 3),
    (1 :> 4 @@ 2 :> 4 @@ 3 :> 4 @@ 4 :> 4),
    (1 :> 4 @@ 2 :> 4 @@ 3 :> 4 @@ 4 :> 4 @@ 5 :> 3),
    (1 :> 4 @@ 2 :> 4 @@ 3 :> 4 @@ 4 :> 4 @@ 5 :> 4),
    (1 :> 4 @@ 2 :> 4 @@ 3 :> 4 @@ 4 :> 4 @@ 5 :> 4 @@ 6 :> 3),
    (1 :> 4 @@ 2 :> 4 @@ 3 :> 4 @@ 4 :> 4 @@ 5 :> 4 @@ 6 :> 4),
    (1 :> 4 @@ 2 :> 4 @@ 3 :> 4 @@ 4 :> 4 @@ 5 :> 4 @@ 6 :> 4 @@ 7 :> 3),
    (1 :> 4 @@ 2 :> 4 @@ 3 :> 4 @@ 4 :> 4 @@ 5 :> 4 @@ 6 :> 4 @@ 7 :> 4),
    (1 :> 4 @@ 2 :> 4 @@ 3 :> 4 @@ 4 :> 4 @@ 5 :> 4 @@ 6 :> 4 @@ 7 :> 4 @@ 8 :> 3),
    (1 :> 4 @@ 2 :> 4 @@ 3 :> 4 @@ 4 :> 4 @@ 5 :> 4 @@ 6 :> 4 @@ 7 :> 4 @@ 8 :> 4),
    (1 :> 4 @@ 2 :> 4 @@ 3 :> 4 @@ 4 :> 4 @@ 5 :> 4 @@ 6 :> 4 @@ 7 :> 4 @@ 8 :> 4 @@ 9 :> 3),
    (1 :> 4 @@ 2 :> 4 @@ 3 :> 4 @@ 4 :> 4 @@ 5 :> 4 @@ 6 :> 4 @@ 7 :> 4 @@ 8 :> 4 @@ 9 :> 4),
    (1 :> 4 @@ 2 :> 4 @@ 3 :> 4 @@ 4 :> 4 @@ 5 :> 4 @@ 6 :> 4 @@ 7 :> 4 @@ 8 :> 4 @@ 9 :> 4 @@ 10 :> 1),
    (1 :> 4 @@ 2 :> 4 @@ 3 :> 4 @@ 4 :> 4 @@ 5 :> 4 @@ 6 :> 4 @@ 7 :> 4 @@ 8 :> 4 @@ 9 :> 4 @@ 10 :> 1)
  >>
\* lines 92-114
DruidSlots ==
  <<
    (1 :> 2),
    (1 :> 3),
    (1 :> 3 @@ 2 :> 2),
    (1 :> 3 @@ 2 :> 3),
    (1 :> 3 @@ 2 :> 3 @@ 3 :> 2),
    (1 :> 3 @@ 2 :> 3 @@ 3 :> 3),
    (1 :> 3 @@ 2 :> 3 @@ 3 :> 3 @@ 4 :> 2),
    (1 :> 3 @@ 2 :> 3 @@ 3 :> 3 @@ 4 :> 3),
    (1 :> 3 @@ 2 :> 3 @@ 3 :> 3 @@ 4 :> 3 @@ 5 :> 2),
    (1 :> 3 @@ 2 :> 3 @@ 3 :> 3 @@ 4 :> 3 @@ 5 :> 3),
    (1 :> 3 @@ 2 :> 3 @@ 3 :> 3 @@ 4 :> 3 @@ 5 :> 3 @@ 6 :> 2),
    (1 :> 3 @@ 2 :> 3 @@ 3 :> 3 @@ 4 :> 3 @@ 5 :> 3 @@ 6 :> 3),
    (1 :> 3 @@ 2 :> 3 @@ 3 :> 3 @@ 4 :> 3 @@ 5 :> 3 @@ 6 :> 3 @@ 7 :> 2),
    (1 :> 3 @@ 2 :> 3 @@ 3 :> 3 @@ 4 :> 3 @@ 5 :> 3 @@ 6 :> 3 @@ 7 :> 3),
    (1 :> 3 @@ 2 :> 3 @@ 3 :> 3 @@ 4 :> 3 @@ 5 :> 3 @@ 6 :> 3 @@ 7 :> 3 @@ 8 :> 2),
    (1 :> 3 @@ 2 :> 3 @@ 3 :> 3 @@ 4 :> 3 @@ 5 :> 3 @@ 6 :> 3 @@ 7 :> 3 @@ 8 :> 3),
    (1 :> 3 @@ 2 :> 3 @@ 3 :> 3 @@ 4 :> 3 @@ 5 :> 3 @@ 6 :> 3 @@ 7 :> 3 @@ 8 :> 3 @@ 9 :> 2),
    (1 :> 3 @@ 2 :> 3 @@ 3 :> 3 @@ 4 :> 3 @@ 5 :> 3 @@ 6 :> 3 @@ 7 :> 3 @@ 8 :> 3 @@ 9 :> 3),
    (1 :> 3 @@ 2 :> 3 @@ 3 :> 3 @@ 4 :> 3 @@ 5 :> 3 @@ 6 :> 3 @@ 7 :> 3 @@ 8 :> 3 @@ 9 :> 3 @@ 10 :> 1),
    (1 :> 3 @@ 2 :> 3 @@ 3 :> 3 @@ 4 :> 3 @@ 5 :> 3 @@ 6 :> 3 @@ 7 :> 3 @@ 8 :> 3 @@ 9 :> 3 @@ 10 :> 1)
  >>
\* lines 119-141
BardSlots ==
  <<
    (1 :> 2),
    (1 :> 3),
    (1 :> 3 @@ 2 :> 2),
    (1 :> 3 @@ 2 :> 3),
    (1 :> 3 @@ 2 :> 3 @@ 3 :> 2),
    (1 :> 3 @@ 2 :> 3 @@ 3 :> 3),
    (1 :> 3 @@ 2 :> 3 @@ 3 :> 3 @@ 4 :> 2),
    (1 :> 3 @@ 2 :> 3 @@ 3 :> 3 @@ 4 :> 3),
    (1 :> 3 @@ 2 :> 3 @@ 3 :> 3 @@ 4 :> 3 @@ 5 :> 2),
    (1 :> 3 @@ 2 :> 3 @@ 3 :> 3 @@ 4 :> 3 @@ 5 :> 3),
    (1 :> 3 @@ 2 :> 3 @@ 3 :> 3 @@ 4 :> 3 @@ 5 :> 3 @@ 6 :> 2),
    (1 :> 3 @@ 2 :> 3 @@ 3 :> 3 @@ 4 :> 3 @@ 5 :> 3 @@ 6 :> 3),
    (1 :> 3 @@ 2 :> 3 @@ 3 :> 3 @@ 4 :> 3 @@ 5 :> 3 @@ 6 :> 3 @@ 7 :> 2),
    (1 :> 3 @@ 2 :> 3 @@ 3 :> 3 @@ 4 :> 3 @@ 5 :> 3 @@ 6 :> 3 @@ 7 :> 3),
    (1 :> 3 @@ 2 :> 3 @@ 3 :> 3 @@ 4 :> 3 @@ 5 :> 3 @@ 6 :> 3 @@ 7 :> 3 @@ 8 :> 2),
    (1 :> 3 @@ 2 :> 3 @@ 3 :> 3 @@ 4 :> 3 @@ 5 :> 3 @@ 6 :> 3 @@ 7 :> 3 @@ 8 :> 3),
    (1 :> 3 @@ 2 :> 3 @@ 3 :> 3 @@ 4 :> 3 @@ 5 :> 3 @@ 6 :> 3 @@ 7 :> 3 @@ 8 :> 3 @@ 9 :> 2),
    (1 :> 3 @@ 2 :> 3 @@ 3 :> 3 @@ 4 :> 3 @@ 5 :> 3 @@ 6 :> 3 @@ 7 :> 3 @@ 8 :> 3 @@ 9 :> 3),
    (1 :> 3 @@ 2 :> 3 @@ 3 :> 3 @@ 4 :> 3 @@ 5 :> 3 @@ 6 :> 3 @@ 7 :> 3 @@ 8 :> 3 @@ 9 :> 3 @@ 10 :> 1),
    (1 :> 3 @@ 2 :> 3 @@ 3 :> 3 @@ 4 :> 3 @@ 5 :> 3 @@ 6 :> 3 @@ 7 :> 3 @@ 8 :> 3 @@ 9 :> 3 @@ 10 :> 1)
  >>
\* lines 146-168
OracleSlots ==
  <<
    (1 :> 3),
    (1 :> 4),
    (1 :> 4 @@ 2 :> 3),
    (1 :> 4 @@ 2 :> 4),
    (1 :> 4 @@ 2 :> 4 @@ 3 :> 3),
    (1 :> 4 @@ 2 :> 4 @@ 3 :> 4),
    (1 :> 4 @@ 2 :> 4 @@ 3 :> 4 @@ 4 :> 3),
    (1 :> 4 @@ 2 :> 4 @@ 3 :> 4 @@ 4 :> 4),
    (1 :> 4 @@ 2 :> 4 @@ 3 :> 4 @@ 4 :> 4 @@ 5 :> 3),
    (1 :> 4 @@ 2 :> 4 @@ 3 :> 4 @@ 4 :> 4 @@ 5 :> 4),
    (1 :> 4 @@ 2 :> 4 @@ 3 :> 4 @@ 4 :> 4 @@ 5 :> 4 @@ 6 :> 3),
    (1 :> 4 @@ 2 :> 4 @@ 3 :> 4 @@ 4 :> 4 @@ 5 :> 4 @@ 6 :> 4),
    (1 :> 4 @@ 2 :> 4 @@ 3 :> 4 @@ 4 :> 4 @@ 5 :> 4 @@ 6 :> 4 @@ 7 :> 3),
    (1 :> 4 @@ 2 :> 4 @@ 3 :> 4 @@ 4 :> 4 @@ 5 :> 4 @@ 6 :> 4 @@ 7 :> 4),
    (1 :> 4 @@ 2 :> 4 @@ 3 :> 4 @@ 4 :> 4 @@ 5 :> 4 @@ 6 :> 4 @@ 7 :> 4 @@ 8 :> 3),
    (1 :> 4 @@ 2 :> 4 @@ 3 :> 4 @@ 4 :> 4 @@ 5 :> 4 @@ 6 :> 4 @@ 7 :> 4 @@ 8 :> 4),
    (1 :> 4 @@ 2 :> 4 @@ 3 :> 4 @@ 4 :> 4 @@ 5 :> 4 @@ 6 :> 4 @@ 7 :> 4 @@ 8 :> 4 @@ 9 :> 3),
    (1 :> 4 @@ 2 :> 4 @@ 3 :> 4 @@ 4 :> 4 @@ 5 :> 4 @@ 6 :> 4 @@ 7 :> 4 @@ 8 :> 4 @@ 9 :> 4),
    (1 :> 4 @@ 2 :> 4 @@ 3 :> 4 @@ 4 :> 4 @@ 5 :> 4 @@ 6 :> 4 @@ 7 :> 4 @@ 8 :> 4 @@ 9 :> 4 @@ 10 :> 1),
    (1 :> 4 @@ 2 :> 4 @@ 3 :> 4 @@ 4 :> 4 @@ 5 :> 4 @@ 6 :> 4 @@ 7 :> 4 @@ 8 :> 4 @@ 9 :> 4 @@ 10 :> 1)
  >>
\* lines 173-195
WitchSlots ==
  <<
    (1 :> 2),
    (1 :> 3),
    (1 :> 3 @@ 2 :> 2),
    (1 :> 3 @@ 2 :> 3),
    (1 :> 3 @@ 2 :> 3 @@ 3 :> 2),
    (1 :> 3 @@ 2 :> 3 @@ 3 :> 3),
    (1 :> 3 @@ 2 :> 3 @@ 3 :> 3 @@ 4 :> 2),
    (1 :> 3 @@ 2 :> 3 @@ 3 :> 3 @@ 4 :> 3),
    (1 :> 3 @@ 2 :> 3 @@ 3 :> 3 @@ 4 :> 3 @@ 5 :> 2),
    (1 :> 3 @@ 2 :> 3 @@ 3 :> 3 @@ 4 :> 3 @@ 5 :> 3),
    (1 :> 3 @@ 2 :> 3 @@ 3 :> 3 @@ 4 :> 3 @@ 5 :> 3 @@ 6 :> 2),
    (1 :> 3 @@ 2 :> 3 @@ 3 :> 3 @@ 4 :> 3 @@ 5 :> 3 @@ 6 :> 3),
    (1 :> 3 @@ 2 :> 3 @@ 3 :> 3 @@ 4 :> 3 @@ 5 :> 3 @@ 6 :> 3 @@ 7 :> 2),
    (1 :> 3 @@ 2 :> 3 @@ 3 :> 3 @@ 4 :> 3 @@ 5 :> 3 @@ 6 :> 3 @@ 7 :> 3),
    (1 :> 3 @@ 2 :> 3 @@ 3 :> 3 @@ 4 :> 3 @@ 5 :> 3 @@ 6 :> 3 @@ 7 :> 3 @@ 8 :> 2),
    (1 :> 3 @@ 2 :> 3 @@ 3 :> 3 @@ 4 :> 3 @@ 5 :> 3 @@ 6 :> 3 @@ 7 :> 3 @@ 8 :> 3),
    (1 :> 3 @@ 2 :> 3 @@ 3 :> 3 @@ 4 :> 3 @@ 5 :> 3 @@ 6 :> 3 @@ 7 :> 3 @@ 8 :> 3 @@ 9 :> 2),
    (1 :> 3 @@ 2 :> 3 @@ 3 :> 3 @@ 4 :> 3 @@ 5 :> 3 @@ 6 :> 3 @@ 7 :> 3 @@ 8 :> 3 @@ 9 :> 3),
    (1 :> 3 @@ 2 :> 3 @@ 3 :> 3 @@ 4 :> 3 @@ 5 :> 3 @@ 6 :> 3 @@ 7 :> 3 @@ 8 :> 3 @@ 9 :> 3 @@ 10 :> 1),
    (1 :> 3 @@ 2 :> 3 @@ 3 :> 3 @@ 4 :> 3 @@ 5 :> 3 @@ 6 :> 3 @@ 7 :> 3 @@ 8 :> 3 @@ 9 :> 3 @@ 10 :> 1)
  >>
\* lines 201-224
AnimistSlots ==
  <<
    (0 :> 2 @@ 1 :> 1),
    (0 :> 2 @@ 1 :> 2),
    (0 :> 2 @@ 1 :> 2 @@ 2 :> 1),
    (0 :> 2 @@ 1 :> 2 @@ 2 :> 2),
    (0 :> 2 @@ 1 :> 2 @@ 2 :> 2 @@ 3 :> 1),
    (0 :> 2 @@ 1 :> 2 @@ 2 :> 2 @@ 3 :> 2),
    (0 :> 2 @@ 1 :> 2 @@ 2 :> 2 @@ 3 :> 2 @@ 4 :> 1),
    (0 :> 2 @@ 1 :> 2 @@ 2 :> 2 @@ 3 :> 2 @@ 4 :> 2),
    (0 :> 2 @@ 1 :> 2 @@ 2 :> 2 @@ 3 :> 2 @@ 4 :> 2 @@ 5 :> 1),
    (0 :> 2 @@ 1 :> 2 @@ 2 :> 2 @@ 3 :> 2 @@ 4 :> 2 @@ 5 :> 2),
    (0 :> 2 @@ 1 :> 2 @@ 2 :> 2 @@ 3 :> 2 @@ 4 :> 2 @@ 5 :> 2 @@ 6 :> 1),
    (0 :> 2 @@ 1 :> 2 @@ 2 :> 2 @@ 3 :> 2 @@ 4 :> 2 @@ 5 :> 2 @@ 6 :> 2),
    (0 :> 2 @@ 1 :> 2 @@ 2 :> 2 @@ 3 :> 2 @@ 4 :> 2 @@ 5 :> 2 @@ 6 :> 2 @@ 7 :> 1),
    (0 :> 2 @@ 1 :> 2 @@ 2 :> 2 @@ 3 :> 2 @@ 4 :> 2 @@ 5 :> 2 @@ 6 :> 2 @@ 7 :> 2),
    (0 :> 2 @@ 1 :> 2 @@ 2 :> 2 @@ 3 :> 2 @@ 4 :> 2 @@ 5 :> 2 @@ 6 :> 2 @@ 7 :> 2 @@ 8 :> 1),
    (0 :> 2 @@ 1 :> 2 @@ 2 :> 2 @@ 3 :> 2 @@ 4 :> 2 @@ 5 :> 2 @@ 6 :> 2 @@ 7 :> 2 @@ 8 :> 2),
    (0 :> 2 @@ 1 :> 2 @@ 2 :> 2 @@ 3 :> 2 @@ 4 :> 2 @@ 5 :> 2 @@ 6 :> 2 @@ 7 :> 2 @@ 8 :> 2 @@ 9 :> 1),
    (0 :> 2 @@ 1 :> 2 @@ 2 :> 2 @@ 3 :> 2 @@ 4 :> 2 @@ 5 :> 2 @@ 6 :> 2 @@ 7 :> 2 @@ 8 :> 2 @@ 9 :> 2),
    (0 :> 2 @@ 1 :> 2 @@ 2 :> 2 @@ 3 :> 2 @@ 4 :> 2 @@ 5 :> 2 @@ 6 :> 2 @@ 7 :> 2 @@ 8 :> 2 @@ 9 :> 2),
    (0 :> 2 @@ 1 :> 2 @@ 2 :> 2 @@ 3 :> 2 @@ 4 :> 2 @@ 5 :> 2 @@ 6 :> 2 @@ 7 :> 2 @@ 8 :> 2 @@ 9 :> 2)
  >>
\* lines 253-275
NecromancerSlots ==
  <<
    (1 :> 1),
    (1 :> 2),
    (1 :> 2 @@ 2 :> 1),
    (1 :> 2 @@ 2 :> 2),
    (1 :> 2 @@ 2 :> 2 @@ 3 :> 1),
    (1 :> 2 @@ 2 :> 2 @@ 3 :> 2),
    (1 :> 2 @@ 2 :> 2 @@ 3 :> 2 @@ 4 :> 1),
    (1 :> 2 @@ 2 :> 2 @@ 3 :> 2 @@ 4 :> 2),
    (1 :> 2 @@ 2 :> 2 @@ 3 :> 2 @@ 4 :> 2 @@ 5 :> 1),
    (1 :> 2 @@ 2 :> 2 @@ 3 :> 2 @@ 4 :> 2 @@ 5 :> 2),
    (1 :> 2 @@ 2 :> 2 @@ 3 :> 2 @@ 4 :> 2 @@ 5 :> 2 @@ 6 :> 1),
    (1 :> 2 @@ 2 :> 2 @@ 3 :> 2 @@ 4 :> 2 @@ 5 :> 2 @@ 6 :> 2),
    (1 :> 2 @@ 2 :> 2 @@ 3 :> 2 @@ 4 :> 2 @@ 5 :> 2 @@ 6 :> 2 @@ 7 :> 1),
    (1 :> 2 @@ 2 :> 2 @@ 3 :> 2 @@ 4 :> 2 @@ 5 :> 2 @@ 6 :> 2 @@ 7 :> 2),
    (1 :> 2 @@ 2 :> 2 @@ 3 :> 2 @@ 4 :> 2 @@ 5 :> 2 @@ 6 :> 2 @@ 7 :> 2 @@ 8 :> 1),
    (1 :> 2 @@ 2 :> 2 @@ 3 :> 2 @@ 4 :> 2 @@ 5 :> 2 @@ 6 :> 2 @@ 7 :> 2 @@ 8 :> 2),
    (1 :> 2 @@ 2 :> 2 @@ 3 :> 2 @@ 4 :> 2 @@ 5 :> 2 @@ 6 :> 2 @@ 7 :> 2 @@ 8 :> 2 @@ 9 :> 1),
    (1 :> 2 @@ 2 :> 2 @@ 3 :> 2 @@ 4 :> 2 @@ 5 :> 2 @@ 6 :> 2 @@ 7 :> 2 @@ 8 :> 2 @@ 9 :> 2),
    (1 :> 2 @@ 2 :> 2 @@ 3 :> 2 @@ 4 :> 2 @@ 5 :> 2 @@ 6 :> 2 @@ 7 :> 2 @@ 8 :> 2 @@ 9 :> 2 @@ 10 :> 1),
    (1 :> 2 @@ 2 :> 2 @@ 3 :> 2 @@ 4 :> 2 @@ 5 :> 2 @@ 6 :> 2 @@ 7 :> 2 @@ 8 :> 2 @@ 9 :> 2 @@ 10 :> 1)
  >>
\* lines 280-302
PsychicSlots ==
  <<
    (1 :> 1),
    (1 :> 2),
    (1 :> 2 @@ 2 :> 1),
    (1 :> 2 @@ 2 :> 2),
    (1 :> 2 @@ 2 :> 2 @@ 3 :> 1),
    (1 :> 2 @@ 2 :> 2 @@ 3 :> 2),
    (1 :> 2 @@ 2 :> 2 @@ 3 :> 2 @@ 4 :> 1),
    (1 :> 2 @@ 2 :> 2 @@ 3 :> 2 @@ 4 :> 2),
    (1 :> 2 @@ 2 :> 2 @@ 3 :> 2 @@ 4 :> 2 @@ 5 :> 1),
    (1 :> 2 @@ 2 :> 2 @@ 3 :> 2 @@ 4 :> 2 @@ 5 :> 2),
    (1 :> 2 @@ 2 :> 2 @@ 3 :> 2 @@ 4 :> 2 @@ 5 :> 2 @@ 6 :> 1),
    (1 :> 2 @@ 2 :> 2 @@ 3 :> 2 @@ 4 :> 2 @@ 5 :> 2 @@ 6 :> 2),
    (1 :> 2 @@ 2 :> 2 @@ 3 :> 2 @@ 4 :> 2 @@ 5 :> 2 @@ 6 :> 2 @@ 7 :> 1),
    (1 :> 2 @@ 2 :> 2 @@ 3 :> 2 @@ 4 :> 2 @@ 5 :> 2 @@ 6 :> 2 @@ 7 :> 2),
    (1 :> 2 @@ 2 :> 2 @@ 3 :> 2 @@ 4 :> 2 @@ 5 :> 2 @@ 6 :> 2 @@ 7 :> 2 @@ 8 :> 1),
    (1 :> 2 @@ 2 :> 2 @@ 3 :> 2 @@ 4 :> 2 @@ 5 :> 2 @@ 6 :> 2 @@ 7 :> 2 @@ 8 :> 2),
    (1 :> 2 @@ 2 :> 2 @@ 3 :> 2 @@ 4 :> 2 @@ 5 :> 2 @@ 6 :> 2 @@ 7 :> 2 @@ 8 :> 2 @@ 9 :> 1),
    (1 :> 2 @@ 2 :> 2 @@ 3 :> 2 @@ 4 :> 2 @@ 5 :> 2 @@ 6 :> 2 @@ 7 :> 2 @@ 8 :> 2 @@ 9 :> 2),
    (1 :> 2 @@ 2 :> 2 @@ 3 :> 2 @@ 4 :> 2 @@ 5 :> 2 @@ 6 :> 2 @@ 7 :> 2 @@ 8 :> 2 @@ 9 :> 2 @@ 10 :> 1),
    (1 :> 2 @@ 2 :> 2 @@ 3 :> 2 @@ 4 :> 2 @@ 5 :> 2 @@ 6 :> 2 @@ 7 :> 2 @@ 8 :> 2 @@ 9 :> 2 @@ 10 :> 1)
  >>
\* lines 337-359
SummonerSlots ==
  <<
    (1 :> 1),
    (1 :> 2),
    (1 :> 2 @@ 2 :> 1),
    (1 :> 2 @@ 2 :> 2),
    (2 :> 2 @@ 3 :> 2),
    (2 :> 2 @@ 3 :> 2),
    (3 :> 2 @@ 4 :> 2),
    (3 :> 2 @@ 4 :> 2),
    (4 :> 2 @@ 5 :> 2),
    (4 :> 2 @@ 5 :> 2),
    (5 :> 2 @@ 6 :> 2),
    (5 :> 2 @@ 6 :> 2),
    (6 :> 2 @@ 7 :> 2),
    (6 :> 2 @@ 7 :> 2),
    (7 :> 2 @@ 8 :> 2),
    (7 :> 2 @@ 8 :> 2),
    (8 :> 2 @@ 9 :> 2),
    (8 :> 2 @@ 9 :> 2),
    (8 :> 2 @@ 9 :> 2),
    (8 :> 2 @@ 9 :> 2)
  >>

\* CLASS_PROGRESSIONS: the spell progression of each class that has one.
\* isWaveCaster is FALSE where the table does not set it.
Progression(spellSlots, learningRule, isWaveCaster) ==
  [spellSlots |-> spellSlots, learningRule |-> learningRule, isWaveCaster |-> isWaveCaster]

CLASS_PROGRESSIONS ==
  [wizard |-> Progression(WizardSlots, "prepared", FALSE),
   sorcerer |-> Progression(SorcererSlots, "spontaneous", FALSE),
   cleric |-> Progression(ClericSlots, "auto", FALSE),
   druid |-> Progression(DruidSlots, "auto", FALSE),
   bard |-> Progression(BardSlots, "spontaneous", FALSE),
   oracle |-> Progression(OracleSlots, "spontaneous", FALSE),
   witch |-> Progression(WitchSlots, "prepared", FALSE),
   animist |-> Progression(AnimistSlots, "auto", FALSE),
   necromancer |-> Progression(NecromancerSlots, "prepared", FALSE),
   psychic |-> Progression(PsychicSlots, "spontaneous", FALSE),
   magus |-> Progression(MagusSlots, "prepared", TRUE),
   summoner |-> Progression(SummonerSlots, "spontaneous", TRUE)]

\* getSpellSlotsAtLevel(classSlug, level): {} for a class without a table or
\* a level without a row.
getSpellSlotsAtLevel(slug, level) ==
  IF slug \notin DOMAIN CLASS_PROGRESSIONS THEN <<>>
  ELSE LET spellSlots == CLASS_PROGRESSIONS[slug].spellSlots
       IN IF level \in DOMAIN spellSlots THEN spellSlots[level] ELSE <<>>

\* autoLearnsCommonSpells(actor), by the slug of the actor's class item.
autoLearnsCommonSpells(slug) ==
  slug # Null /\ slug \in {"cleric", "druid", "animist"}

\* The compendium documents fromUuid() and dataProvider.getSpells() serve.
FeatDoc(u, n) == [uuid |-> u, type |-> "feat", name |-> n]

SpellDoc(u, n, r, t, c) ==
  [uuid |-> u, type |-> "spell", name |-> n, rank |-> r, traditions |-> t, rarity |-> c]

FeatPack ==
  << FeatDoc("Compendium.pf2e.feats-srd.Item.suddenCharge", "Sudden Charge"),
     FeatDoc("Compendium.pf2e.feats-srd.Item.catFall", "Cat Fall") >>

SpellPack ==
  << SpellDoc("Compendium.pf2e.spells-srd.Item.light", "Light", 0, {"arcane", "divine"}, "common"),
     SpellDoc("Compendium.pf2e.spells-srd.Item.bless", "Bless", 1, {"divine"}, "common"),
     SpellDoc("Compendium.pf2e.spells-srd.Item.grease", "Grease", 1, {"arcane"}, "common"),
     SpellDoc("Compendium.pf2e.spells-srd.Item.restoration", "Restoration", 2, {"divine"}, "common"),
     SpellDoc("Compendium.pf2e.spells-srd.Item.heroism", "Heroism", 3, {"divine"}, "common"),
     SpellDoc("Compendium.pf2e.spells-srd.Item.infuseVitality", "Infuse Vitality", 1, {"divine"}, "uncommon") >>

\* A uuid whose document was deleted, and one whose lookup throws.
DeletedUuid == "Compendium.pf2e.feats-srd.Item.deleted"
BrokenUuid == "Compendium.missing-pack.Item.x"

\* fromUuid(uuid): the document, null, or an exception.
fromUuid(uuid) ==
  LET all == FeatPack \o SpellPack
      hits == {k \in 1..Len(all) : all[k].uuid = uuid}
  IN IF uuid = BrokenUuid THEN [status |-> "throws"]
     ELSE IF hits = {} THEN [status |-> "null"]
     ELSE [status |-> "doc", doc |-> all[CHOOSE k \in hits : TRUE]]

\* String.prototype.toLowerCase on the spell names that occur.
toLowerCase(name) ==
  CASE name = "Light" -> "light"
    [] name = "LIGHT" -> "light"
    [] name = "Bless" -> "bless"
    [] name = "Grease" -> "grease"
    [] name = "Restoration" -> "restoration"
    [] name = "Heroism" -> "heroism"
    [] name = "Infuse Vitality" -> "infuse vitality"
    [] OTHER -> name

\* dataProvider.getSpells({ rank, tradition, rarity }) over the loaded list.
SpellsMatching(rank, tradition, rarity) ==
  LET Keep(s) == /\ s.rank = rank
                 /\ tradition \in s.traditions
                 /\ s.rarity = rarity
  IN SelectSeq(SpellPack, Keep)

\* An embedded item of the actor.  sourceId is what the system's sourceId
\* getter reports, coreSourceId is flags.core.sourceId, location is
\* system.location (<<group, level>> for the `${group}-${level}` of a feat).
Item(type, name, location, sourceId, coreSourceId) ==
  [type |-> type, name |-> name, location |-> location,
   sourceId |-> sourceId, coreSourceId |-> coreSourceId]

NoLocation == <<"", 0>>

\* No spellcasting entry found (null).
NoEntry == [id |-> Null, tradition |-> Null]

\* The existing-feat test with the name and location match left out.
ExistingFeatBySourceOnly(its, featUuid, name, targetLocation) ==
  \E k \in 1..Len(its) :
    /\ its[k].type = "feat"
    /\ \/ its[k].sourceId = featUuid
       \/ its[k].coreSourceId = featUuid

\* existingFeat: an owned feat with this source, or this name at this
\* location.  (An embedded item's own uuid is never a compendium uuid.)
ExistingFeat(its, featUuid, name, targetLocation) ==
  \E k \in 1..Len(its) :
    /\ its[k].type = "feat"
    /\ \/ its[k].sourceId = featUuid
       \/ its[k].coreSourceId = featUuid
       \/ (its[k].name = name /\ its[k].location = targetLocation)

\* existingSpell: an owned spell with this source or this exact name.
ExistingSpell(its, spellUuid, name) ==
  \E k \in 1..Len(its) :
    /\ its[k].type = "spell"
    /\ \/ its[k].sourceId = spellUuid
       \/ its[k].coreSourceId = spellUuid
       \/ its[k].name = name

\* `${locationGroup}-${targetLevel}`
TargetLocation(locationGroup) == <<locationGroup, targetLevel>>

\* What the system's sourceId getter reports for an item created from the
\* compendium document `uuid`: the pf2e system tracks it or it does not.
CreatedSourceId(uuid) == IF tracksSource THEN uuid ELSE Null

\* featsToCreate after the first k feat types: a clone for every chosen feat
\* that resolves and is not already owned.  A lookup that throws is caught
\* and the feat is skipped.
RECURSIVE FeatsToCreate(_)
FeatsToCreate(k) ==
  IF k = 0 THEN <<>>
  ELSE LET rest == FeatsToCreate(k - 1)
           featType == FeatTypes[k][1]
           locationGroup == FeatTypes[k][2]
           featUuid == IF featType \in DOMAIN choices THEN choices[featType] ELSE Null
           feat == fromUuid(featUuid)
       IN IF featUuid = Null THEN rest
          ELSE IF feat.status # "doc" THEN rest
          ELSE IF ExistingFeat(items, featUuid, feat.doc.name, TargetLocation(locationGroup))
                 THEN rest
          ELSE Append(rest, Item("feat", feat.doc.name, TargetLocation(locationGroup),
                                 CreatedSourceId(featUuid), Null))

\* The clones of the first n uuids of one spell list.
RECURSIVE SpellClones(_, _)
SpellClones(spellUuids, n) ==
  IF n = 0 THEN <<>>
  ELSE LET rest == SpellClones(spellUuids, n - 1)
           spellUuid == spellUuids[n]
           spell == fromUuid(spellUuid)
       IN IF spell.status # "doc" THEN rest
          ELSE IF ExistingSpell(items, spellUuid, spell.doc.name) THEN rest
          ELSE Append(rest, Item("spell", spell.doc.name, [value |-> entry.id],
                                 CreatedSourceId(spellUuid), spellUuid))

\* spellsToCreate after the first k spell types.
RECURSIVE SpellsToCreate(_)
SpellsToCreate(k) ==
  IF k = 0 THEN <<>>
  ELSE LET spellType == SpellTypes[k]
           spellUuids == IF spellType \in DOMAIN choices THEN choices[spellType] ELSE <<>>
       IN SpellsToCreate(k - 1) \o SpellClones(spellUuids, Len(spellUuids))

\* (targetSlots && targetSlots[rank]) || 0
SlotCount(targetSlots, rank) ==
  IF rank \in DOMAIN targetSlots THEN targetSlots[rank] ELSE 0

\* Math.max(...Object.keys(targetSlots).map(Number)); -Infinity for {} runs
\* the rank loop zero times, as -1 does.
MaxRank(targetSlots) ==
  IF DOMAIN targetSlots = {} THEN -1
  ELSE CHOOSE r \in DOMAIN targetSlots : \A q \in DOMAIN targetSlots : q <= r

\* The inner loop of _addAutoLearnSpells over the first n spells of one rank:
\* acc.add is spellsToAdd, acc.names is existingSpellNames.
RECURSIVE LearnFrom(_, _, _)
LearnFrom(spells, n, acc) ==
  IF n = 0 THEN acc
  ELSE LET prev == LearnFrom(spells, n - 1, acc)
           spell == spells[n]
       IN IF toLowerCase(spell.name) \in prev.names THEN prev
          ELSE [add |-> Append(prev.add,
                               Item("spell", spell.name, [value |-> entry.id],
                                    CreatedSourceId(spell.uuid), spell.uuid)),
                names |-> prev.names \cup {toLowerCase(spell.name)}]

\* spellsToAdd after ranks 0..rank.
RECURSIVE SpellsToAdd(_, _)
SpellsToAdd(rank, tradition) ==
  IF rank < 0
    THEN [add |-> <<>>,
          names |-> {toLowerCase(items[k].name) : k \in {j \in 1..Len(items) : items[j].type = "spell"}}]
  ELSE LET spells == SpellsMatching(rank, tradition, "common")
       IN LearnFrom(spells, Len(spells), SpellsToAdd(rank - 1, tradition))

\* boostSetLevels.find(level => level >= this.targetLevel); 0 when none.
CurrentBoostSet ==
  LET boostSetLevels == <<5, 10, 15, 20>>
      at == {k \in 1..4 : boostSetLevels[k] >= targetLevel}
  IN IF at = {} THEN 0
     ELSE boostSetLevels[CHOOSE k \in at : \A j \in at : k <= j]

\* What the level, skill, boost and slot steps write to.
Sheet == [level |-> alevel, skills |-> skills, boosts |-> boosts, slots |-> slots]

applyFrame == <<choices, targetLevel, classSlug, entry, tracksSource>>

\* A click on Submit: _onSubmit starts (again, with the same choices, once
\* the previous run has ended).
Submit ==
  /\ apc \in {"idle", "complete", "failed"}
  /\ submits < MaxSubmits
  /\ submits' = submits + 1
  /\ prevDone' = (apc = "complete")
  /\ before' = Sheet
  /\ created' = 0
  /\ apc' = "level"
  /\ UNCHANGED <<alevel, items, skills, boosts, slots, applyFrame>>
  /\ UNCHANGED notApply

\* Step 0: raise the level when the actor is below the target.
UpdateLevel(ok) ==
  /\ apc = "level"
  /\ IF alevel < targetLevel
       THEN IF ok THEN alevel' = targetLevel /\ apc' = "feats"
                  ELSE alevel' = alevel /\ apc' = "failed"
       ELSE ok /\ alevel' = alevel /\ apc' = "feats"
  /\ UNCHANGED <<items, skills, boosts, slots, submits, prevDone, before, created, applyFrame>>
  /\ UNCHANGED notApply

\* Step 1: create the chosen feats the actor does not own yet.
AddFeats(ok) ==
  /\ apc = "feats"
  /\ LET featsToCreate == FeatsToCreate(Len(FeatTypes))
     IN IF Len(featsToCreate) > 0
          THEN IF ok THEN /\ items' = items \o featsToCreate
                          /\ created' = created + Len(featsToCreate)
                          /\ apc' = "skills"
                     ELSE UNCHANGED <<items, created>> /\ apc' = "failed"
          ELSE ok /\ UNCHANGED <<items, created>> /\ apc' = "skills"
  /\ UNCHANGED <<alevel, skills, boosts, slots, submits, prevDone, before, applyFrame>>
  /\ UNCHANGED notApply

\* Step 2: every chosen skill goes to its current rank plus one.
ApplySkillIncreases(ok) ==
  /\ apc = "skills"
  /\ LET chosen == {choices.skillIncreases[k] : k \in 1..Len(choices.skillIncreases)}
     IN IF chosen # {}
          THEN IF ok THEN /\ skills' = [s \in DOMAIN skills |->
                                          IF s \in chosen THEN skills[s] + 1 ELSE skills[s]]
                          /\ apc' = "boosts"
                     ELSE skills' = skills /\ apc' = "failed"
          ELSE ok /\ skills' = skills /\ apc' = "boosts"
  /\ UNCHANGED <<alevel, items, boosts, slots, submits, prevDone, before, created, applyFrame>>
  /\ UNCHANGED notApply

\* Step 3: the chosen boosts replace the boost set of the level's milestone.
ApplyAbilityBoosts(ok) ==
  /\ apc = "boosts"
  /\ IF Len(choices.abilityBoosts) > 0 /\ CurrentBoostSet # 0
       THEN IF ok THEN /\ boosts' = [boosts EXCEPT ![CurrentBoostSet] = choices.abilityBoosts]
                       /\ apc' = "spells"
                  ELSE boosts' = boosts /\ apc' = "failed"
       ELSE ok /\ boosts' = boosts /\ apc' = "spells"
  /\ UNCHANGED <<alevel, items, skills, slots, submits, prevDone, before, created, applyFrame>>
  /\ UNCHANGED notApply

\* Step 4: create the chosen spells the actor does not own yet.
ApplySpells(ok) ==
  /\ apc = "spells"
  /\ LET spellsToCreate == SpellsToCreate(Len(SpellTypes))
     IN IF Len(spellsToCreate) > 0
          THEN IF ok THEN /\ items' = items \o spellsToCreate
                          /\ created' = created + Len(spellsToCreate)
                          /\ apc' = "slots"
                     ELSE UNCHANGED <<items, created>> /\ apc' = "failed"
          ELSE ok /\ UNCHANGED <<items, created>> /\ apc' = "slots"
  /\ UNCHANGED <<alevel, skills, boosts, slots, submits, prevDone, before, applyFrame>>
  /\ UNCHANGED notApply

\* The slot update: with a spellcasting entry and a class item, every rank
\* 1..10 is set to the table's count for the target level (an empty object
\* is truthy, so a class without a table is updated too).
UpdateSpellSlots(ok) ==
  /\ apc = "slots"
  /\ IF entry # NoEntry /\ classSlug # Null
       THEN LET targetSlots == getSpellSlotsAtLevel(classSlug, targetLevel)
            IN IF ok THEN /\ slots' = [rank \in 1..10 |->
                                         [max |-> SlotCount(targetSlots, rank),
                                          value |-> SlotCount(targetSlots, rank)]]
                          /\ apc' = "autolearn"
                     ELSE slots' = slots /\ apc' = "failed"
       ELSE ok /\ slots' = slots /\ apc' = "autolearn"
  /\ UNCHANGED <<alevel, items, skills, boosts, submits, prevDone, before, created, applyFrame>>
  /\ UNCHANGED notApply

\* _addAutoLearnSpells for cleric, druid and animist, then the end of
\* _onSubmit.  The spell list is read from the data provider, which can
\* reject; the created spells are written in one batch.
AddAutoLearnSpells(ok) ==
  /\ apc = "autolearn"
  /\ IF /\ entry # NoEntry
        /\ classSlug # Null
        /\ autoLearnsCommonSpells(classSlug)
        /\ entry.tradition # ""
       THEN LET targetSlots == getSpellSlotsAtLevel(classSlug, targetLevel)
                spellsToAdd == SpellsToAdd(MaxRank(targetSlots), entry.tradition).add
            IN IF ok THEN /\ items' = items \o spellsToAdd
                          /\ created' = created + Len(spellsToAdd)
                          /\ apc' = "complete"
                     ELSE UNCHANGED <<items, created>> /\ apc' = "failed"
       ELSE ok /\ UNCHANGED <<items, created>> /\ apc' = "complete"
  /\ UNCHANGED <<alevel, skills, boosts, slots, submits, prevDone, before, applyFrame>>
  /\ UNCHANGED notApply

\* The choices of the wizard session.
NoChoices ==
  [classFeats |-> Null, ancestryFeats |-> Null, skillFeats |-> Null,
   generalFeats |-> Null, freeArchetypeFeats |-> Null, ancestryParagonFeats |-> Null,
   mythicFeats |-> Null, dualClassFeats |-> Null,
   skillIncreases |-> <<>>, abilityBoosts |-> <<>>]

ApplyChoices ==
  { NoChoices,
    [NoChoices EXCEPT !.classFeats = FeatPack[1].uuid, !.skillFeats = FeatPack[2].uuid,
                      !.skillIncreases = <<"athletics">>],
    [NoChoices EXCEPT !.classFeats = FeatPack[1].uuid, !.freeArchetypeFeats = FeatPack[1].uuid,
                      !.abilityBoosts = <<"str", "dex", "con", "wis">>],
    ("cantrips" :> <<SpellPack[1].uuid>>) @@ ("rank1Spells" :> <<SpellPack[3].uuid, SpellPack[3].uuid>>)
      @@ [NoChoices EXCEPT !.classFeats = DeletedUuid, !.generalFeats = BrokenUuid],
    ("cantrips" :> <<SpellPack[1].uuid>>) @@ ("rank1Spells" :> <<SpellPack[2].uuid>>)
      @@ [NoChoices EXCEPT !.skillIncreases = <<"athletics", "stealth">>,
                           !.abilityBoosts = <<"str", "int", "wis", "cha">>],
    ("cantrips" :> <<>>) @@ ("rank2Spells" :> <<BrokenUuid, SpellPack[4].uuid>>) @@ NoChoices }

\* The actor's class item (by slug, Null without one) and the entry
\* getClassSpellcastingEntry() finds for it.
ApplyActors ==
  { [classSlug |-> "wizard", entry |-> [id |-> "entry1", tradition |-> "arcane"]],
    [classSlug |-> "cleric", entry |-> [id |-> "entry1", tradition |-> "divine"]],
    [classSlug |-> "cleric", entry |-> [id |-> "entry1", tradition |-> ""]],
    [classSlug |-> "magus", entry |-> [id |-> "entry1", tradition |-> "arcane"]],
    [classSlug |-> "fighter", entry |-> NoEntry],
    [classSlug |-> Null, entry |-> [id |-> "entry1", tradition |-> "divine"]] }

TargetLevels == {3, 6}

\* Items the actor may own before the first submit.
OwnedBefore ==
  { <<>>,
    << Item("spell", "LIGHT", [value |-> "entry1"], Null, Null),
       Item("feat", "Cat Fall", NoLocation, Null, Null) >> }

\* The ranks of the actor's skills when the wizard opens.
StartSkills == { [athletics |-> 1, stealth |-> 0], [athletics |-> 4, stealth |-> 0] }

InitApply ==
  /\ choices \in ApplyChoices
  /\ \E a \in ApplyActors : classSlug = a.classSlug /\ entry = a.entry
  /\ targetLevel \in TargetLevels
  /\ alevel \in {targetLevel - 1, targetLevel}
  /\ tracksSource \in BOOLEAN
  /\ items \in OwnedBefore
  /\ skills \in StartSkills
  /\ boosts = [b \in {5, 10, 15, 20} |-> <<>>]
  /\ slots = [rank \in 1..10 |->
                [max |-> SlotCount(getSpellSlotsAtLevel(classSlug, targetLevel - 1), rank),
                 value |-> SlotCount(getSpellSlotsAtLevel(classSlug, targetLevel - 1), rank)]]
  /\ apc = "idle"
  /\ submits = 0
  /\ prevDone = FALSE
  /\ created = 0
  /\ before = Sheet

IdleApply ==
  /\ choices = NoChoices
  /\ classSlug = Null
  /\ entry = NoEntry
  /\ targetLevel = 1
  /\ alevel = 1
  /\ tracksSource = FALSE
  /\ items = <<>>
  /\ skills = [athletics |-> 0, stealth |-> 0]
  /\ boosts = [b \in {5, 10, 15, 20} |-> <<>>]
  /\ slots = [rank \in 1..10 |-> [max |-> 0, value |-> 0]]
  /\ apc = "idle"
  /\ submits = 0
  /\ prevDone = FALSE
  /\ created = 0
  /\ before = [level |-> 1, skills |-> [athletics |-> 0, stealth |-> 0],
               boosts |-> [b \in {5, 10, 15, 20} |-> <<>>],
               slots |-> [rank \in 1..10 |-> [max |-> 0, value |-> 0]]]

NextApply ==
  \/ Submit
  \/ \E ok \in BOOLEAN : UpdateLevel(ok)
  \/ \E ok \in BOOLEAN : AddFeats(ok)
  \/ \E ok \in BOOLEAN : ApplySkillIncreases(ok)
  \/ \E ok \in BOOLEAN : ApplyAbilityBoosts(ok)
  \/ \E ok \in BOOLEAN : ApplySpells(ok)
  \/ \E ok \in BOOLEAN : UpdateSpellSlots(ok)
  \/ \E ok \in BOOLEAN : AddAutoLearnSpells(ok)

(***************************************************************************)
(*          BuildPlanManager (scripts/build-plan-manager.js)               *)
(***************************************************************************)
\* JavaScript values, tagged by type.  An object is a function from its own
\* keys to values; a key whose value is undefined is still a key.
Str(s) == [t |-> "str", v |-> s]
Num(n) == [t |-> "num", v |-> n]
Bool(b) == [t |-> "bool", v |-> b]
Arr(a) == [t |-> "arr", v |-> a]
Obj(f) == [t |-> "obj", v |-> f]
JsNull == [t |-> "null"]
JsUndefined == [t |-> "undef"]

\* o[k]: undefined for a key the value does not have.
Get(o, k) ==
  IF o.t = "obj" /\ k \in DOMAIN o.v THEN o.v[k] ELSE JsUndefined

\* !!x
Truthy(x) ==
  CASE x.t = "null" -> FALSE
    [] x.t = "undef" -> FALSE
    [] x.t = "str" -> x.v # ""
    [] x.t = "num" -> x.v # 0
    [] x.t = "bool" -> x.v
    [] OTHER -> TRUE

\* What JSON keeps of a value: a property whose value is undefined is left
\* out, an undefined array element becomes null.
RECURSIVE Serialized(_)
Serialized(x) ==
  CASE x.t = "obj" ->
         Obj([k \in {j \in DOMAIN x.v : x.v[j].t # "undef"} |-> Serialized(x.v[k])])
    [] x.t = "arr" ->
         Arr([i \in 1..Len(x.v) |->
                IF x.v[i].t = "undef" THEN JsNull ELSE Serialized(x.v[i])])
    [] OTHER -> x

\* A text: JSON for `value`, or not JSON at all.
JsonText(value) == [ok |-> TRUE, value |-> value]
NotJson == [ok |-> FALSE, value |-> JsUndefined]

\* JSON.stringify(plan, null, 2)
JsonStringify(x) == JsonText(Serialized(x))

\* detectVariantRules(): the variant rules of the world.
VariantRules(fa, gb, ap, dc, my, abp) ==
  [freeArchetype |-> fa, gradualBoosts |-> gb, ancestryParagon |-> ap,
   dualClass |-> dc, mythic |-> my, abp |-> abp]

\* detectMythicTierProgression(actor)
detectMythicTierProgression ==
  Obj((1 :> Num(2)) @@ (2 :> Num(6)) @@ (3 :> Num(10)) @@ (4 :> Num(14)) @@ (5 :> Num(18)))

\* The choices object createNewPlan gives every level.
NewChoices(variantRules) ==
  Obj([classFeats |-> JsNull,
       ancestryFeats |-> JsNull,
       skillFeats |-> JsNull,
       generalFeats |-> JsNull,
       freeArchetypeFeats |-> IF variantRules.freeArchetype THEN JsNull ELSE JsUndefined,
       ancestryParagonFeats |-> IF variantRules.ancestryParagon THEN JsNull ELSE JsUndefined,
       mythicFeats |-> IF variantRules.mythic = "enabled" THEN JsNull ELSE JsUndefined,
       dualClassFeats |-> IF variantRules.dualClass THEN JsNull ELSE JsUndefined,
       skillIncreases |-> Arr(<<>>),
       abilityBoosts |-> Arr(<<>>),
       spells |-> Obj([cantrips |-> Arr(<<>>), rank1 |-> Arr(<<>>), rank2 |-> Arr(<<>>),
                       rank3 |-> Arr(<<>>), rank4 |-> Arr(<<>>), rank5 |-> Arr(<<>>),
                       rank6 |-> Arr(<<>>), rank7 |-> Arr(<<>>), rank8 |-> Arr(<<>>),
                       rank9 |-> Arr(<<>>), rank10 |-> Arr(<<>>)])])

\* createNewPlan(actor) for an actor of level currentLevel, at time `time`.
createNewPlan(currentLevel, variantRules, time) ==
  Obj([version |-> Str("1.0.0"),
       lastModified |-> Num(time),
       levels |-> Obj([i \in 1..20 |->
                         Obj([choices |-> NewChoices(variantRules),
                              applied |-> Bool(i <= currentLevel),
                              notes |-> Str("")])]),
       variantRules |-> Obj([freeArchetype |-> Bool(variantRules.freeArchetype),
                             gradualBoosts |-> Bool(variantRules.gradualBoosts),
                             ancestryParagon |-> Bool(variantRules.ancestryParagon),
                             dualClass |-> Bool(variantRules.dualClass),
                             mythic |-> Str(variantRules.mythic),
                             abp |-> Str(variantRules.abp)]),
       mythicTiers |-> IF variantRules.mythic = "enabled"
                         THEN detectMythicTierProgression
                         ELSE Obj(<<>>)])

\* getAppliedLevels(plan): the levels whose applied is truthy.
getAppliedLevels(plan) ==
  {i \in 1..20 : Truthy(Get(Get(Get(plan, "levels"), i), "applied"))}

\* Date.now() when the plans that exist at the start were made, and
\* Date.now() at every save after that.
CreatedAt == 1
DateNow == 2

\* exportPlan(plan)
exportPlan(plan) == JsonStringify(plan)

\* What importPlan does when it throws.
Thrown == [threw |-> TRUE, plan |-> JsUndefined]

\* importPlan without the test of plan.levels.
importPlanNoLevelsTest(json) ==
  IF ~json.ok THEN Thrown
  ELSE IF json.value.t = "null" THEN Thrown
  ELSE IF ~Truthy(Get(json.value, "version")) THEN Thrown
  ELSE [threw |-> FALSE, plan |-> json.value]

\* importPlan(json): JSON.parse throws on a text that is not JSON, reading
\* .version of null throws, a falsy version or levels throws; every error is
\* rethrown.
importPlan(json) ==
  IF ~json.ok THEN Thrown
  ELSE IF json.value.t = "null" THEN Thrown
  ELSE IF ~Truthy(Get(json.value, "version")) THEN Thrown
  ELSE IF ~Truthy(Get(json.value, "levels")) THEN Thrown
  ELSE [threw |-> FALSE, plan |-> json.value]

\* The variant rules a world can have (gradual boosts and ABP do not enter
\* the plan's structure).
RuleSets ==
  { VariantRules(fa, FALSE, ap, dc, my, "noABP") :
      fa \in BOOLEAN, ap \in BOOLEAN, dc \in BOOLEAN, my \in {"disabled", "enabled"} }

\* ---- export followed by import of a new plan ----
ExportNewPlan ==
  /\ rtpc = "created"
  /\ rtJson' = exportPlan(rtPlan)
  /\ rtpc' = "exported"
  /\ UNCHANGED <<rtPlan, rtBack>>
  /\ UNCHANGED notRoundTrip

ImportExported ==
  /\ rtpc = "exported"
  /\ rtBack' = importPlan(rtJson)
  /\ rtpc' = "imported"
  /\ UNCHANGED <<rtPlan, rtJson>>
  /\ UNCHANGED notRoundTrip

InitRoundTrip ==
  /\ \E currentLevel \in 1..20, variantRules \in RuleSets :
       rtPlan = createNewPlan(currentLevel, variantRules, CreatedAt)
  /\ rtJson = NotJson
  /\ rtBack = Thrown
  /\ rtpc = "created"

IdleRoundTrip ==
  /\ rtPlan = JsUndefined
  /\ rtJson = NotJson
  /\ rtBack = Thrown
  /\ rtpc = "idle"

NextRoundTrip ==
  \/ ExportNewPlan
  \/ ImportExported

(***************************************************************************)
(*              BuildPlannerApp (src/unnamed/part_000:411-970)             *)
(***************************************************************************)
\* The debounce delay of _autoSave, in milliseconds.
Delay == 2000

\* savePlan's synchronous part: stamp lastModified, default the version.
Stamped(plan, time) ==
  LET versioned == IF Truthy(Get(plan, "version"))
                     THEN plan.v
                     ELSE ("version" :> Str("1.0.0")) @@ plan.v
  IN Obj(("lastModified" :> Num(time)) @@ versioned)

\* What actor.setFlag() stores of a plan.
Stored(plan) == Serialized(plan)

\* this.buildPlan.levels[level] exists (the handlers throw without it).
HasLevel(plan, level) ==
  /\ Get(plan, "levels").t = "obj"
  /\ level \in DOMAIN Get(plan, "levels").v
  /\ Get(Get(plan, "levels").v[level], "choices").t = "obj"

\* plan.levels[level].choices
ChoicesOf(plan, level) == plan.v["levels"].v[level].v["choices"]

\* plan.levels[level].choices[key] = value
WithChoice(plan, level, key, value) ==
  [plan EXCEPT !.v["levels"].v[level].v["choices"].v = (key :> value) @@ @]

\* detectAbilityBoosts(actor, level).count
AbilityBoostCount(gradualBoosts, level) ==
  IF gradualBoosts
    THEN IF level \in {2, 4, 6, 8, 10, 12, 14, 16, 18, 20} THEN 4 ELSE 0
    ELSE IF level \in {5, 10, 15, 20} THEN 4 ELSE 0

\* getSkillIncreasesForLevel(actor, level) for a class whose
\* skillIncreaseLevels are the odd levels from 3 and an Intelligence
\* modifier of 0.
SkillIncreaseCount(level) ==
  LET skillIncreaseLevels == <<3, 5, 7, 9, 11, 13, 15, 17, 19>>
      intMod == 0
      count == Cardinality({k \in 1..Len(skillIncreaseLevels) : skillIncreaseLevels[k] = level})
  IN IF level > 1 /\ level % 2 = 1 /\ intMod > 0 THEN count + intMod ELSE count

\* The toggle with the limit left out.
ToggledWithoutLimit(array, item, limit) ==
  LET at == {k \in 1..Len(array) : array[k] = item}
  IN IF at # {}
       THEN LET index == CHOOSE k \in at : \A j \in at : k <= j
            IN SubSeq(array, 1, index - 1) \o SubSeq(array, index + 1, Len(array))
       ELSE Append(array, item)

\* The array after the handler toggled `item` in it: removed when present,
\* pushed when absent and the limit allows; the same array otherwise.
Toggled(array, item, limit) ==
  LET at == {k \in 1..Len(array) : array[k] = item}
  IN IF at # {}
       THEN LET index == CHOOSE k \in at : \A j \in at : k <= j
            IN SubSeq(array, 1, index - 1) \o SubSeq(array, index + 1, Len(array))
       ELSE IF Len(array) < limit THEN Append(array, item)
       ELSE array

\* clearTimeout that clears nothing.
clearTimeoutNothing(pending, id) == pending

\* clearTimeout(id): the pending timers without timer id.
clearTimeout(pending, id) == {timer \in pending : timer.id # id}

\* _autoSave(): cancel the timer set last, set a new one.
autoSave ==
  /\ timers' = clearTimeout(timers, saveTimeout) \cup {[id |-> nextTimer, age |-> 0]}
  /\ saveTimeout' = nextTimer
  /\ nextTimer' = nextTimer + 1
  /\ sinceEdit' = 0

\* No import has just run.
NoImport ==
  [op |-> "none", input |-> NotJson, threw |-> FALSE, returned |-> JsUndefined,
   memBefore |-> JsUndefined, persistedBefore |-> JsUndefined]

\* What a choice-setting handler leaves alone.
editFrame == <<actorLevel, worldRules, persisted, saving, lastSaveOk, firedAfter>>

\* _onSelectFeat's onSelect callback.
SelectFeat(level, featType, featUuid) ==
  /\ clicks < MaxClicks
  /\ HasLevel(buildPlan, level)
  /\ buildPlan' = WithChoice(buildPlan, level, featType, Str(featUuid))
  /\ autoSave
  /\ clicks' = clicks + 1
  /\ lastImport' = NoImport
  /\ UNCHANGED editFrame
  /\ UNCHANGED notPlanner

\* _onSelectSpell's onConfirm callback.
SelectSpell(level, spellType, spellUuids) ==
  /\ clicks < MaxClicks
  /\ HasLevel(buildPlan, level)
  /\ buildPlan' = WithChoice(buildPlan, level, spellType,
                             Arr([k \in 1..Len(spellUuids) |-> Str(spellUuids[k])]))
  /\ autoSave
  /\ clicks' = clicks + 1
  /\ lastImport' = NoImport
  /\ UNCHANGED editFrame
  /\ UNCHANGED notPlanner

\* The body shared by _onToggleAbilityBoost and _onToggleSkillIncrease: a
\* missing list becomes [], the item is toggled, and only a toggle that
\* was not refused calls _autoSave().
ToggleIn(level, key, item, limit) ==
  LET choices0 == ChoicesOf(buildPlan, level)
      array == IF Truthy(Get(choices0, key)) THEN Get(choices0, key).v ELSE <<>>
      toggled == Toggled(array, Str(item), limit)
  IN /\ buildPlan' = WithChoice(buildPlan, level, key, Arr(toggled))
     /\ IF toggled # array
          THEN autoSave
          ELSE UNCHANGED <<timers, saveTimeout, nextTimer, sinceEdit>>

\* BuildPlannerApp._onToggleAbilityBoost
onToggleAbilityBoost(level, ability) ==
  /\ HasLevel(buildPlan, level)
  /\ ToggleIn(level, "abilityBoosts", ability,
              AbilityBoostCount(worldRules.gradualBoosts, level))
  /\ lastImport' = NoImport
  /\ UNCHANGED editFrame
  /\ UNCHANGED notPlanner

\* BuildPlannerApp._onToggleSkillIncrease
onToggleSkillIncrease(level, skill) ==
  /\ HasLevel(buildPlan, level)
  /\ ToggleIn(level, "skillIncreases", skill, SkillIncreaseCount(level))
  /\ lastImport' = NoImport
  /\ UNCHANGED editFrame
  /\ UNCHANGED notPlanner

\* A click on an ability button of the planner.
ToggleAbilityBoost(level, ability) ==
  /\ clicks < MaxClicks
  /\ onToggleAbilityBoost(level, ability)
  /\ clicks' = clicks + 1

\* A click on a skill button of the planner.
ToggleSkillIncrease(level, skill) ==
  /\ clicks < MaxClicks
  /\ onToggleSkillIncrease(level, skill)
  /\ clicks' = clicks + 1

\* BuildPlanManager.savePlan(actor, this.buildPlan) up to its await: the
\* plan is stamped and the write of it is under way.
savePlan ==
  /\ buildPlan' = Stamped(buildPlan, DateNow)
  /\ saving' = Append(saving, Stored(Stamped(buildPlan, DateNow)))

\* _onSavePlan: the Save button.
SavePlanNow ==
  /\ clicks < MaxClicks
  /\ savePlan
  /\ clicks' = clicks + 1
  /\ lastImport' = NoImport
  /\ UNCHANGED <<actorLevel, worldRules, persisted, timers, saveTimeout, nextTimer, sinceEdit,
                 firedAfter, lastSaveOk>>
  /\ UNCHANGED notPlanner

\* The texts pasted into the import dialog.
ImportTexts ==
  { NotJson,
    JsonText(JsNull),
    JsonText(Arr(<<>>)),
    JsonText(Obj(<<>>)),
    JsonText(Obj([version |-> Str("1.0.0")])),
    JsonText(Obj([levels |-> Obj(<<>>)])),
    JsonText(Obj([version |-> Str(""), levels |-> Obj(<<>>)])),
    JsonText(Obj([version |-> Str("1.0.0"), levels |-> JsNull])),
    JsonText(Obj([version |-> Str("1.0.0"), levels |-> Obj(<<>>)])),
    exportPlan(createNewPlan(1, VariantRules(FALSE, FALSE, FALSE, FALSE, "disabled", "noABP"), 1)) }

\* _onImportPlan's import callback: the plan is replaced and saved only
\* when importPlan returned; an exception is caught and reported.
ImportPlan(json) ==
  /\ clicks < MaxClicks
  /\ clicks' = clicks + 1
  /\ LET result == importPlan(json)
     IN /\ lastImport' = [op |-> "import", input |-> json, threw |-> result.threw,
                          returned |-> result.plan,
                          memBefore |-> buildPlan, persistedBefore |-> persisted]
        /\ IF result.threw
             THEN UNCHANGED <<buildPlan, saving>>
             ELSE /\ buildPlan' = Stamped(result.plan, DateNow)
                  /\ saving' = Append(saving, Stored(Stamped(result.plan, DateNow)))
  /\ UNCHANGED <<actorLevel, worldRules, persisted, timers, saveTimeout, nextTimer, sinceEdit,
                 firedAfter, lastSaveOk>>
  /\ UNCHANGED notPlanner

\* Half the delay passes.
Tick ==
  /\ \/ sinceEdit < Delay
     \/ \E timer \in timers : timer.age < Delay
  /\ timers' = {[timer EXCEPT !.age = IF @ < Delay THEN @ + Delay \div 2 ELSE @] : timer \in timers}
  /\ sinceEdit' = IF sinceEdit < Delay THEN sinceEdit + Delay \div 2 ELSE sinceEdit
  /\ lastImport' = NoImport
  /\ UNCHANGED <<actorLevel, worldRules, persisted, buildPlan, saveTimeout, nextTimer, saving,
                 lastSaveOk, firedAfter, clicks>>
  /\ UNCHANGED notPlanner

\* The timeout callback of _autoSave runs: a timer whose delay has passed
\* fires and saves the plan as it is now.
TimerFires ==
  /\ \E timer \in timers :
       /\ timer.age >= Delay
       /\ timers' = timers \ {timer}
  /\ savePlan
  /\ firedAfter' = sinceEdit
  /\ lastImport' = NoImport
  /\ UNCHANGED <<actorLevel, worldRules, persisted, saveTimeout, nextTimer, sinceEdit,
                 lastSaveOk, clicks>>
  /\ UNCHANGED notPlanner

\* actor.setFlag() settles for the oldest write under way: the flag holds
\* what was written, or the write is rejected (the callers catch that).
SaveSettles(ok) ==
  /\ saving # <<>>
  /\ persisted' = IF ok THEN Head(saving) ELSE persisted
  /\ saving' = Tail(saving)
  /\ lastSaveOk' = ok
  /\ lastImport' = NoImport
  /\ UNCHANGED <<actorLevel, worldRules, buildPlan, timers, saveTimeout, nextTimer, sinceEdit,
                 firedAfter, clicks>>
  /\ UNCHANGED notPlanner

PlannerActorLevels == {3}

PlannerRules ==
  { VariantRules(FALSE, FALSE, FALSE, FALSE, "disabled", "noABP"),
    VariantRules(TRUE, FALSE, FALSE, FALSE, "disabled", "noABP") }

PlannerLevels == {5}

\* The planner after its constructor: the plan stored on the actor, or a
\* new plan and a first _autoSave().
InitPlanner ==
  /\ actorLevel \in PlannerActorLevels
  /\ worldRules \in PlannerRules
  /\ \E hasPlan \in BOOLEAN :
       IF hasPlan
         THEN /\ persisted = Stored(createNewPlan(actorLevel, worldRules, CreatedAt))
              /\ buildPlan = persisted
              /\ timers = {}
              /\ saveTimeout = 0
              /\ nextTimer = 1
         ELSE /\ persisted = JsUndefined
              /\ buildPlan = createNewPlan(actorLevel, worldRules, CreatedAt)
              /\ timers = {[id |-> 1, age |-> 0]}
              /\ saveTimeout = 1
              /\ nextTimer = 2
  /\ sinceEdit = 0
  /\ firedAfter = Delay
  /\ saving = <<>>
  /\ lastSaveOk = TRUE
  /\ lastImport = NoImport
  /\ clicks = 0

IdlePlanner ==
  /\ actorLevel = 1
  /\ worldRules = VariantRules(FALSE, FALSE, FALSE, FALSE, "disabled", "noABP")
  /\ persisted = JsUndefined
  /\ buildPlan = JsUndefined
  /\ timers = {}
  /\ saveTimeout = 0
  /\ nextTimer = 1
  /\ sinceEdit = 0
  /\ firedAfter = Delay
  /\ saving = <<>>
  /\ lastSaveOk = TRUE
  /\ lastImport = NoImport
  /\ clicks = 0

NextPlanner ==
  \/ \E level \in PlannerLevels : SelectFeat(level, "classFeats", FeatPack[1].uuid)
  \/ \E level \in PlannerLevels : SelectSpell(level, "rank1Spells", <<SpellPack[3].uuid>>)
  \/ \E level \in PlannerLevels : ToggleAbilityBoost(level, "str")
  \/ \E level \in PlannerLevels, skill \in {"athletics", "stealth"} :
       ToggleSkillIncrease(level, skill)
  \/ SavePlanNow
  \/ \E json \in ImportTexts : ImportPlan(json)
  \/ Tick
  \/ TimerFires
  \/ \E ok \in BOOLEAN : SaveSettles(ok)

\* The planner with its choice-setting handlers and its autosave alone.
NextAutoSave ==
  \/ \E level \in PlannerLevels : SelectFeat(level, "classFeats", FeatPack[1].uuid)
  \/ \E level \in PlannerLevels : SelectSpell(level, "rank1Spells", <<SpellPack[3].uuid>>)
  \/ \E level \in PlannerLevels : ToggleAbilityBoost(level, "str")
  \/ \E level \in PlannerLevels, skill \in {"athletics", "stealth"} :
       ToggleSkillIncrease(level, skill)
  \/ Tick
  \/ TimerFires
  \/ \E ok \in BOOLEAN : SaveSettles(ok)

\* Time passes, a due timer fires and a write settles.
FairAutoSave ==
  /\ WF_vars(Tick)
  /\ WF_vars(TimerFires)
  /\ WF_vars(\E ok \in BOOLEAN : SaveSettles(ok))

(***************************************************************************)
(*        The helper functions of src/scripts/helpers, called alone        *)
(***************************************************************************)
\* What a call did: it returned a value or threw.
Returned(value) == [threw |-> FALSE, value |-> value]
Threw == [threw |-> TRUE, value |-> Null]

\* game: the registered settings ("namespace.key" -> value) and whether the
\* xdy-pf2e-workbench module is active.
Host(registered, workbenchActive) ==
  [settings |-> registered, workbenchActive |-> workbenchActive]

\* game.settings.settings.has(key)
SettingsHas(key) == key \in DOMAIN qhost.settings

\* game.settings.get(namespace, key): throws for a setting that is not
\* registered.
SettingsGet(key) ==
  IF SettingsHas(key) THEN Returned(qhost.settings[key]) ELSE Threw

\* The class item of an actor: slug, name and the level arrays of
\* classItem.system.
ClassItem(slug, name, classFeats, ancestryFeats, skillFeats, generalFeats, skillIncreases) ==
  [slug |-> slug, name |-> name, classFeatLevels |-> classFeats,
   ancestryFeatLevels |-> ancestryFeats, skillFeatLevels |-> skillFeats,
   generalFeatLevels |-> generalFeats, skillIncreaseLevels |-> skillIncreases]

\* actor.items.find(i => i.type === 'class') finds nothing.
NoClass == [found |-> FALSE]

\* A class item whose system data has none of the level arrays.
BareClassItem(slug, name) == [slug |-> slug, name |-> name]

\* classItem.system.<array>?.value || []
LevelsOf(classItem, array) ==
  IF array \in DOMAIN classItem THEN classItem[array] ELSE <<>>

\* The actor a resolver is handed: its class item and its Intelligence modifier.
QueryActor(classItem, intMod) ==
  [classItem |-> classItem, intMod |-> intMod]

\* name.toLowerCase().replace(/\s+/g, '-') on the class names that occur.
Slugify(name) ==
  CASE name = "Necromancer" -> "necromancer"
    [] name = "Rune Smith" -> "rune-smith"
    [] name = "Magus" -> "magus"
    [] OTHER -> name

\* classItem.slug || classItem.name?.toLowerCase().replace(/\s+/g, '-')
SlugOrName(classItem) ==
  IF classItem.slug # Null THEN classItem.slug ELSE Slugify(classItem.name)

\* slots[rank] || 0
SlotsOr0(slotsByRank, rank) ==
  IF rank \in DOMAIN slotsByRank THEN slotsByRank[rank] ELSE 0

\* The { rank: count } object the loops over rank 1..10 build: a rank gets a
\* key when its count is positive.
PositiveByRank(counts) ==
  [rank \in {r \in 1..10 : counts[r] > 0} |-> counts[rank]]

\* getNewSpellSlotsAtLevel without the subtraction of the previous level.
getNewSpellSlotsNotSubtracting(slug, level) == getSpellSlotsAtLevel(slug, level)

\* getNewSpellSlotsAtLevel(classSlug, level)
getNewSpellSlotsAtLevel(slug, level) ==
  IF level = 1 THEN getSpellSlotsAtLevel(slug, 1)
  ELSE LET currentSlots == getSpellSlotsAtLevel(slug, level)
           previousSlots == getSpellSlotsAtLevel(slug, level - 1)
           gained == [rank \in 1..10 |->
                        SlotsOr0(currentSlots, rank) - SlotsOr0(previousSlots, rank)]
       IN PositiveByRank(gained)

\* getLostSpellSlotsAtLevel with the subtraction the other way round.
getLostSpellSlotsAtLevelGained(slug, level) ==
  IF level = 1 THEN <<>>
  ELSE IF slug \notin DOMAIN CLASS_PROGRESSIONS \/ ~CLASS_PROGRESSIONS[slug].isWaveCaster
  THEN <<>>
  ELSE LET currentSlots == getSpellSlotsAtLevel(slug, level)
           previousSlots == getSpellSlotsAtLevel(slug, level - 1)
           lost == [rank \in 1..10 |->
                      SlotsOr0(currentSlots, rank) - SlotsOr0(previousSlots, rank)]
       IN PositiveByRank(lost)

\* getLostSpellSlotsAtLevel(classSlug, level)
getLostSpellSlotsAtLevel(slug, level) ==
  IF level = 1 THEN <<>>
  ELSE IF slug \notin DOMAIN CLASS_PROGRESSIONS \/ ~CLASS_PROGRESSIONS[slug].isWaveCaster
  THEN <<>>
  ELSE LET currentSlots == getSpellSlotsAtLevel(slug, level)
           previousSlots == getSpellSlotsAtLevel(slug, level - 1)
           lost == [rank \in 1..10 |->
                      SlotsOr0(previousSlots, rank) - SlotsOr0(currentSlots, rank)]
       IN PositiveByRank(lost)

\* The prepared loop run upwards: the lowest rank with slots, 0 without one.
LowestRankWithSlots(slotsByRank) ==
  LET S == {rank \in 1..10 : SlotsOr0(slotsByRank, rank) > 0}
  IN IF S = {} THEN 0 ELSE CHOOSE r \in S : \A q \in S : r <= q

\* for (rank = 10; rank >= 1; rank--) if (slots[rank] > 0) { ...; break }:
\* the highest rank with slots, 0 without one.
HighestRankWithSlots(slotsByRank) ==
  LET S == {rank \in 1..10 : SlotsOr0(slotsByRank, rank) > 0}
  IN IF S = {} THEN 0 ELSE CHOOSE r \in S : \A q \in S : r >= q

\* Math.max over the keys of a { rank: count } object, starting from 0.
MaxKey(byRank) ==
  IF DOMAIN byRank = {} THEN 0
  ELSE CHOOSE r \in DOMAIN byRank : \A q \in DOMAIN byRank : r >= q

RECURSIVE SumByRank(_, _)
SumByRank(byRank, rank) ==
  IF rank = 0 THEN 0 ELSE SumByRank(byRank, rank - 1) + SlotsOr0(byRank, rank)

Undefined == "undefined"

SpellsToLearn(totalSpells, byRank, highestRank, learningRule) ==
  [totalSpells |-> totalSpells, byRank |-> byRank, highestRank |-> highestRank,
   learningRule |-> learningRule]

\* getSpellsToLearnAtLevel(actor, level)
getSpellsToLearnAtLevel(actor, level) ==
  IF actor.classItem = NoClass THEN SpellsToLearn(0, <<>>, 0, Undefined)
  ELSE LET slug == SlugOrName(actor.classItem)
       IN IF slug \notin DOMAIN CLASS_PROGRESSIONS THEN SpellsToLearn(0, <<>>, 0, Undefined)
          ELSE LET learningRule == CLASS_PROGRESSIONS[slug].learningRule
                   newSlots == getNewSpellSlotsAtLevel(slug, level)
                   highest == HighestRankWithSlots(getSpellSlotsAtLevel(slug, level))
                   learned == [rank \in 1..10 |-> SlotsOr0(newSlots, rank)]
               IN CASE learningRule = "auto" -> SpellsToLearn(0, <<>>, 0, learningRule)
                    [] learningRule = "prepared" ->
                         IF highest = 0 THEN SpellsToLearn(0, <<>>, 0, learningRule)
                         ELSE SpellsToLearn(2, (highest :> 2), highest, learningRule)
                    [] learningRule = "spontaneous" ->
                         SpellsToLearn(SumByRank(PositiveByRank(learned), 10),
                                       PositiveByRank(learned),
                                       MaxKey(PositiveByRank(learned)), learningRule)
                    [] OTHER -> SpellsToLearn(0, <<>>, 0, learningRule)

\* array.includes(level)
Includes(levels, level) == \E k \in 1..Len(levels) : levels[k] = level

\* The boost info detectAbilityBoosts returns; completing is FALSE where the
\* code leaves the key out.
BoostInfo(hasBoosts, count, isPartial, completing) ==
  [hasBoosts |-> hasBoosts, count |-> count, isPartial |-> isPartial,
   completing |-> completing]

\* detectAbilityBoosts(actor, level); the actor is not read.
detectAbilityBoosts(actor, level) ==
  LET setting == SettingsGet("pf2e.gradualBoosts")
      evenLevels == <<2, 4, 6, 8, 10, 12, 14, 16, 18, 20>>
      completionLevels == <<3, 7, 13, 17>>
      standardBoostLevels == <<5, 10, 15, 20>>
  IN IF setting.threw THEN Threw
     ELSE IF setting.value = Str("enabled")
     THEN IF Includes(evenLevels, level)
          THEN Returned(BoostInfo(TRUE, 4, TRUE, FALSE))
          ELSE IF Includes(completionLevels, level)
          THEN Returned(BoostInfo(TRUE, 0, TRUE, TRUE))
          ELSE Returned(BoostInfo(FALSE, 0, FALSE, FALSE))
     ELSE IF Includes(standardBoostLevels, level)
          THEN Returned(BoostInfo(TRUE, 4, FALSE, FALSE))
          ELSE Returned(BoostInfo(FALSE, 0, FALSE, FALSE))

\* getCurrentBoostSet(actor, level): the key of the boost set, Null
\* for none.
getCurrentBoostSet(actor, level) ==
  LET setting == SettingsGet("pf2e.gradualBoosts")
  IN IF setting.threw THEN Threw
     ELSE IF setting.value # Str("enabled")
     THEN Returned(CASE level = 5 -> "0"
                     [] level = 10 -> "1"
                     [] level = 15 -> "2"
                     [] level = 20 -> "3"
                     [] OTHER -> Null)
     ELSE Returned(CASE level >= 2 /\ level <= 3 -> "0"
                     [] level >= 4 /\ level <= 7 -> "1"
                     [] level >= 8 /\ level <= 13 -> "2"
                     [] level >= 14 /\ level <= 17 -> "3"
                     [] level >= 18 /\ level <= 20 -> "4"
                     [] OTHER -> Null)

\* getSkillIncreasesForLevel(actor, level)
getSkillIncreasesForLevel(actor, level) ==
  IF actor.classItem = NoClass THEN 0
  ELSE LET skillIncreaseLevels == LevelsOf(actor.classItem, "skillIncreaseLevels")
           count == Cardinality({k \in 1..Len(skillIncreaseLevels) :
                                   skillIncreaseLevels[k] = level})
       IN IF level > 1 /\ level % 2 = 1 /\ actor.intMod > 0
          THEN count + actor.intMod
          ELSE count

\* One key of the slots object: present with 1 or 0 when the rule is on.
SlotKey(enabled, key, levels, level) ==
  IF enabled THEN (key :> IF Includes(levels, level) THEN 1 ELSE 0) ELSE <<>>

\* getFeatSlotsForLevel(actor, level): the slots object, {} without a
\* class item.  The settings are read without a guard.
getFeatSlotsForLevel(actor, level) ==
  IF actor.classItem = NoClass THEN Returned(<<>>)
  ELSE LET classItem == actor.classItem
           evens == <<2, 4, 6, 8, 10, 12, 14, 16, 18, 20>>
           paragonLevels == <<1, 3, 7, 11, 15, 19>>
           freeArchetype == SettingsGet("pf2e.freeArchetype")
           mythic == SettingsGet("pf2e.mythic")
           paragon == SettingsGet("xdy-pf2e-workbench.ancestryParagonVariant")
           dualClass == SettingsGet("pf2e.dualClass")
           class == IF Includes(LevelsOf(classItem, "classFeatLevels"), level) THEN 1 ELSE 0
       IN IF \/ freeArchetype.threw
             \/ mythic.threw
             \/ (qhost.workbenchActive /\ paragon.threw)
             \/ dualClass.threw
          THEN Threw
          ELSE Returned(
                 ("class" :> class)
                 @@ SlotKey(TRUE, "ancestry", LevelsOf(classItem, "ancestryFeatLevels"), level)
                 @@ SlotKey(TRUE, "skill", LevelsOf(classItem, "skillFeatLevels"), level)
                 @@ SlotKey(TRUE, "general", LevelsOf(classItem, "generalFeatLevels"), level)
                 @@ SlotKey(freeArchetype.value = Str("enabled"), "archetype", evens,
                            level)
                 @@ SlotKey(mythic.value = Str("enabled"), "mythic", evens, level)
                 @@ SlotKey(qhost.workbenchActive /\ paragon.value = Str("enabled"),
                            "ancestryParagon", paragonLevels, level)
                 @@ (IF dualClass.value = Str("enabled") THEN ("dualClass" :> class)
                     ELSE <<>>))

\* is...Enabled(): the setting is read only when it is registered, inside a
\* try.
SettingIs(key, value) == SettingsHas(key) /\ qhost.settings[key] = value

\* getMythicSetting() / getABPSetting()
SettingOr(key, default) == IF SettingsHas(key) THEN qhost.settings[key] ELSE default

\* detectVariantRules()
detectVariantRules ==
  VariantRules(SettingIs("pf2e.freeArchetypeVariant", Bool(TRUE)),
               SettingIs("pf2e.gradualBoostsVariant", Bool(TRUE)),
               qhost.workbenchActive
                 /\ SettingIs("xdy-pf2e-workbench.ancestryParagonVariant", Str("enabled")),
               SettingIs("pf2e.dualClass", Bool(TRUE)),
               SettingOr("pf2e.mythic", Str("disabled")),
               SettingOr("pf2e.automaticBonusVariant", Str("noABP")))

\* The hosts considered: the settings the pf2e system registers under its
\* ...Variant keys, the settings under the keys the feat helpers read, both or
\* a mix, each switched on and off.
SystemOff ==
  Host(("pf2e.freeArchetypeVariant" :> Bool(FALSE)) @@ ("pf2e.gradualBoostsVariant" :> Bool(FALSE))
       @@ ("pf2e.mythic" :> Str("disabled")) @@ ("pf2e.automaticBonusVariant" :> Str("noABP")),
       FALSE)

SystemOn ==
  Host(("pf2e.freeArchetypeVariant" :> Bool(TRUE)) @@ ("pf2e.gradualBoostsVariant" :> Bool(TRUE))
       @@ ("pf2e.mythic" :> Str("enabled")) @@ ("pf2e.automaticBonusVariant" :> Str("noABP"))
       @@ ("xdy-pf2e-workbench.ancestryParagonVariant" :> Str("enabled")),
       TRUE)

HelperKeysOff ==
  Host(("pf2e.freeArchetype" :> Str("disabled")) @@ ("pf2e.gradualBoosts" :> Str("disabled"))
       @@ ("pf2e.mythic" :> Str("disabled")) @@ ("pf2e.dualClass" :> Str("disabled")),
       FALSE)

HelperKeysOn ==
  Host(("pf2e.freeArchetype" :> Str("enabled")) @@ ("pf2e.gradualBoosts" :> Str("enabled"))
       @@ ("pf2e.mythic" :> Str("enabled")) @@ ("pf2e.dualClass" :> Str("enabled"))
       @@ ("xdy-pf2e-workbench.ancestryParagonVariant" :> Str("enabled")),
       TRUE)

BothOn ==
  Host(("pf2e.freeArchetype" :> Str("enabled")) @@ ("pf2e.freeArchetypeVariant" :> Bool(TRUE))
       @@ ("pf2e.gradualBoosts" :> Str("enabled")) @@ ("pf2e.gradualBoostsVariant" :> Bool(TRUE))
       @@ ("pf2e.mythic" :> Str("enabled")) @@ ("pf2e.dualClass" :> Bool(TRUE))
       @@ ("xdy-pf2e-workbench.ancestryParagonVariant" :> Str("enabled")),
       TRUE)

BothMixed ==
  Host(("pf2e.freeArchetype" :> Str("disabled")) @@ ("pf2e.freeArchetypeVariant" :> Bool(TRUE))
       @@ ("pf2e.gradualBoosts" :> Str("enabled")) @@ ("pf2e.gradualBoostsVariant" :> Bool(FALSE))
       @@ ("pf2e.mythic" :> Str("disabled")) @@ ("pf2e.dualClass" :> Str("enabled"))
       @@ ("xdy-pf2e-workbench.ancestryParagonVariant" :> Str("disabled")),
       TRUE)

Hosts == {SystemOff, SystemOn, HelperKeysOff, HelperKeysOn, BothOn, BothMixed}

\* A class item with the level arrays of a caster of the system.
CasterClass(slug, name) ==
  ClassItem(slug, name,
            <<2, 4, 6, 8, 10, 12, 14, 16, 18, 20>>,
            <<1, 5, 9, 13, 17>>,
            <<2, 4, 6, 8, 10, 12, 14, 16, 18, 20>>,
            <<3, 7, 11, 15, 19>>,
            <<3, 5, 7, 9, 11, 13, 15, 17, 19>>)

\* The actors the resolvers are called with: one of each class with a spell
\* progression, classes without one, playtest classes without a slug, a class
\* item without level arrays, and actors without a class item.
ResolverActors ==
  {QueryActor(CasterClass(slug, slug), 0) : slug \in DOMAIN CLASS_PROGRESSIONS}
  \cup
  { QueryActor(CasterClass("wizard", "Wizard"), 2),
    QueryActor(ClassItem("fighter", "Fighter",
                         <<1, 2, 4, 6, 8, 10, 12, 14, 16, 18, 20>>, <<1, 5, 9, 13, 17>>,
                         <<2, 4, 6, 8, 10, 12, 14, 16, 18, 20>>, <<3, 7, 11, 15, 19>>,
                         <<3, 5, 7, 9, 11, 13, 15, 17, 19>>), 0),
    QueryActor(CasterClass(Null, "Necromancer"), 0),
    QueryActor(CasterClass(Null, "Rune Smith"), 1),
    QueryActor(BareClassItem("kineticist", "Kineticist"), 0),
    QueryActor(NoClass, 0),
    QueryActor(NoClass, 2) }

Levels == 1..20

Call(fn, arg, level, result) == [fn |-> fn, arg |-> arg, level |-> level, result |-> result]

NoCall == Call(Null, Null, 0, Returned(Null))

\* The helpers keep no state of their own, so a behaviour makes one call:
\* a second call would be answered as if it were the first.
queryFrame == /\ qcall.fn = Null
              /\ UNCHANGED <<qhost, qactor>>
              /\ UNCHANGED notQuery

\* getLostSpellSlotsAtLevel is called with the slug of the actor's class.
CallGetLostSpellSlotsAtLevel(level) ==
  /\ qcall.fn = Null
  /\ qactor.classItem # NoClass
  /\ LET slug == SlugOrName(qactor.classItem)
     IN qcall' = Call("getLostSpellSlotsAtLevel", slug, level,
                      Returned(getLostSpellSlotsAtLevel(slug, level)))
  /\ queryFrame

CallGetSpellsToLearnAtLevel(level) ==
  /\ qcall.fn = Null
  /\ qcall' = Call("getSpellsToLearnAtLevel", "actor", level,
                   Returned(getSpellsToLearnAtLevel(qactor, level)))
  /\ queryFrame

CallDetectAbilityBoosts(level) ==
  /\ qcall.fn = Null
  /\ qcall' = Call("detectAbilityBoosts", "actor", level, detectAbilityBoosts(qactor, level))
  /\ queryFrame

CallGetCurrentBoostSet(level) ==
  /\ qcall.fn = Null
  /\ qcall' = Call("getCurrentBoostSet", "actor", level, getCurrentBoostSet(qactor, level))
  /\ queryFrame

CallGetSkillIncreasesForLevel(level) ==
  /\ qcall.fn = Null
  /\ qcall' = Call("getSkillIncreasesForLevel", "actor", level,
                   Returned(getSkillIncreasesForLevel(qactor, level)))
  /\ queryFrame

CallGetFeatSlotsForLevel(level) ==
  /\ qcall.fn = Null
  /\ qcall' = Call("getFeatSlotsForLevel", "actor", level, getFeatSlotsForLevel(qactor, level))
  /\ queryFrame

InitResolver ==
  /\ qhost \in Hosts
  /\ qactor \in ResolverActors
  /\ qcall = NoCall

\* The query variables while another component is studied.
IdleQuery ==
  /\ qhost = SystemOff
  /\ qactor = QueryActor(NoClass, 0)
  /\ qcall = NoCall

\* The slot functions do not read the settings.
InitSlots ==
  /\ qhost = SystemOff
  /\ qactor \in ResolverActors
  /\ qcall = NoCall

NextSlots ==
  \/ \E level \in Levels : CallGetLostSpellSlotsAtLevel(level)
  \/ \E level \in Levels : CallGetSpellsToLearnAtLevel(level)

NextResolver ==
  \/ \E level \in Levels : CallGetSpellsToLearnAtLevel(level)
  \/ \E level \in Levels : CallDetectAbilityBoosts(level)
  \/ \E level \in Levels : CallGetCurrentBoostSet(level)
  \/ \E level \in Levels : CallGetSkillIncreasesForLevel(level)
  \/ \E level \in Levels : CallGetFeatSlotsForLevel(level)

(***************************************************************************)
(*       Feat queries: getFeatsForLevel and filterFeats (feat-helpers)      *)
(***************************************************************************)
FREE_ARCHETYPE_FEAT_LEVELS == <<2, 4, 6, 8, 10, 12, 14, 16, 18, 20>>
MYTHIC_FEAT_LEVELS == <<2, 4, 6, 8, 10, 12, 14, 16, 18, 20>>
ANCESTRY_PARAGON_FEAT_LEVELS == <<1, 3, 7, 11, 15, 19>>

\* The level the literal 12 names in getFeatsForLevel's mythic query and in
\* filterFeats' destiny exclusion.
DestinyFeatLevel == 12

\* getDefaultMythicTierProgression(): tier -> level.
getDefaultMythicTierProgression ==
  (1 :> 2) @@ (2 :> 6) @@ (3 :> 10) @@ (4 :> 14) @@ (5 :> 18)

\* getLevelForMythicTier(tier) with the default progression:
\* tierProgression[tier] || null.
getLevelForMythicTier(tier) ==
  IF tier \in DOMAIN getDefaultMythicTierProgression
  THEN getDefaultMythicTierProgression[tier]
  ELSE 0

\* A feat of the cache: maxTakable 0 stands for a feat whose system data
\* leaves maxTakable unset, which `|| 1` treats alike.
FeatEntry(name, slug, traits, level, maxTakable) ==
  [name |-> name, slug |-> slug, traits |-> traits, level |-> level,
   maxTakable |-> maxTakable, isArchetypeFeat |-> JsUndefined]

\* dataProvider.getFeats(): the cached feats, in cache order.
FeatCache ==
  << FeatEntry("Sudden Charge", "sudden-charge", <<"fighter", "flourish">>, 1, 0),
     FeatEntry("Additional Lore", "additional-lore", <<"general", "skill">>, 1, 3),
     FeatEntry("Nimble Elf", "nimble-elf", <<"elf">>, 1, 0),
     FeatEntry("Orc Ferocity", "orc-ferocity", <<"orc">>, 1, 1),
     FeatEntry("Engraving Strike", "engraving-strike", <<"Rune Smith">>, 1, 0),
     FeatEntry("Fighter Dedication", "fighter-dedication",
               <<"archetype", "dedication", "multiclass">>, 2, 0),
     FeatEntry("Reactive Striker", "reactive-striker", <<"fighter", "archetype">>, 4, 0),
     FeatEntry("Mythic Strike", "mythic-strike", <<"mythic">>, 2, 0),
     FeatEntry("Archfiend", "archfiend", <<"destiny">>, 12, 0),
     FeatEntry("Beast Lord", "beast-lord", <<"mythic", "destiny">>, 10, 1),
     FeatEntry("Boundless Reprisals", "boundless-reprisals", <<"fighter">>, 20, 0) >>

\* normalizeString(str): '' for a missing string, else lower case without
\* white space, on the strings that occur.
normalizeString(str) ==
  CASE str = Null -> ""
    [] str = "Fighter" -> "fighter"
    [] str = "Rune Smith" -> "runesmith"
    [] str = "Elf" -> "elf"
    [] str = "Orc" -> "orc"
    [] str = "Human" -> "human"
    [] str = "Aiuvarin" -> "aiuvarin"
    [] str = "Dromaar" -> "dromaar"
    [] OTHER -> str

\* String.prototype.toLowerCase on the feat names that occur.
featNameLower(name) ==
  CASE name = "Sudden Charge" -> "sudden charge"
    [] name = "SUDDEN CHARGE" -> "sudden charge"
    [] name = "Additional Lore" -> "additional lore"
    [] name = "Nimble Elf" -> "nimble elf"
    [] name = "Orc Ferocity" -> "orc ferocity"
    [] name = "Engraving Strike" -> "engraving strike"
    [] name = "Fighter Dedication" -> "fighter dedication"
    [] name = "Reactive Striker" -> "reactive striker"
    [] name = "Mythic Strike" -> "mythic strike"
    [] name = "Archfiend" -> "archfiend"
    [] name = "Beast Lord" -> "beast lord"
    [] name = "Boundless Reprisals" -> "boundless reprisals"
    [] OTHER -> name

\* loadManualArchetypeFeats() returns {}: Object.values({}).flat() is empty.
loadManualArchetypeFeats == <<>>

\* array.includes(value) on an array of strings.
IncludesStr(array, value) == \E k \in 1..Len(array) : array[k] = value

\* array.map(fn) for the two string conversions.
MapNormalize(array) == [k \in 1..Len(array) |-> normalizeString(array[k])]
MapLower(array) == [k \in 1..Len(array) |-> featNameLower(array[k])]

\* The predicate of filterFeats' allFeats.filter, without the level test.
KeepFeatAnyLevel(feat, normalizedQueries, level, existingFeatNames) ==
  LET traits == MapNormalize(feat.traits)
      isTaken == IncludesStr(existingFeatNames, featNameLower(feat.name))
      maxTakable == IF feat.maxTakable = 0 THEN 1 ELSE feat.maxTakable
      isManualArchetypeFeat ==
        /\ IncludesStr(normalizedQueries, "archetype")
        /\ IncludesStr(loadManualArchetypeFeats, feat.slug)
      isDestinyTraitExcluded ==
        level # DestinyFeatLevel /\ IncludesStr(traits, "destiny")
  IN /\ \/ \E q \in 1..Len(normalizedQueries) : IncludesStr(traits, normalizedQueries[q])
        \/ isManualArchetypeFeat
     /\ ~(isTaken /\ maxTakable = 1)
     /\ ~isDestinyTraitExcluded

\* The predicate of filterFeats' allFeats.filter.
KeepFeat(feat, normalizedQueries, level, existingFeatNames) ==
  LET traits == MapNormalize(feat.traits)
      isTaken == IncludesStr(existingFeatNames, featNameLower(feat.name))
      maxTakable == IF feat.maxTakable = 0 THEN 1 ELSE feat.maxTakable
      isManualArchetypeFeat ==
        /\ IncludesStr(normalizedQueries, "archetype")
        /\ IncludesStr(loadManualArchetypeFeats, feat.slug)
      isDestinyTraitExcluded ==
        level # DestinyFeatLevel /\ IncludesStr(traits, "destiny")
  IN /\ \/ \E q \in 1..Len(normalizedQueries) : IncludesStr(traits, normalizedQueries[q])
        \/ isManualArchetypeFeat
     /\ feat.level <= level
     /\ ~(isTaken /\ maxTakable = 1)
     /\ ~isDestinyTraitExcluded

\* filterFeats(searchQueries, level, existingFeats): searchQueries is
\* the array the code makes of its argument (a lone string is wrapped),
\* existingFeats the names of the actor's feat items.
filterFeats(searchQueries, level, existingFeats) ==
  LET normalizedQueries == MapNormalize(searchQueries)
      existingFeatNames == MapLower(existingFeats)
      Kept(feat) == KeepFeat(feat, normalizedQueries, level, existingFeatNames)
  IN SelectSeq(FeatCache, Kept)

\* a.name.localeCompare(b.name) < 0 on the feat names that occur.
NameOrder ==
  << "Additional Lore", "Archfiend", "Beast Lord", "Boundless Reprisals",
     "Engraving Strike", "Fighter Dedication", "Mythic Strike", "Nimble Elf",
     "Orc Ferocity", "Reactive Striker", "Sudden Charge" >>

NameIndex(name) == CHOOSE k \in 1..Len(NameOrder) : NameOrder[k] = name

\* The comparator of sortFeats is negative: a sorts before b.
Precedes(a, b, method) ==
  LET byName == NameIndex(a.name) < NameIndex(b.name)
  IN CASE method = "LEVEL_ASC" ->
            IF a.level # b.level THEN a.level < b.level ELSE byName
       [] method = "ALPHABETICAL" -> byName
       [] OTHER ->
            IF a.level # b.level THEN b.level < a.level ELSE byName

InsertSorted(sorted, feat, method) ==
  LET k == Cardinality({i \in 1..Len(sorted) : ~Precedes(feat, sorted[i], method)})
  IN SubSeq(sorted, 1, k) \o <<feat>> \o SubSeq(sorted, k + 1, Len(sorted))

\* sortFeats(feats, method): Array.prototype.sort is stable.
RECURSIVE sortFeats(_, _)
sortFeats(feats, method) ==
  IF feats = <<>> THEN <<>>
  ELSE InsertSorted(sortFeats(SubSeq(feats, 1, Len(feats) - 1), method),
                    feats[Len(feats)], method)

\* The actor getFeatsForLevel is handed: class item, the names of the
\* ancestry and heritage items (Null when the actor has none) and the names
\* of the feat items.
FeatActor(classItem, ancestry, heritage, feats) ==
  [classItem |-> classItem, ancestry |-> ancestry, heritage |-> heritage,
   feats |-> feats]

QueryFeatTypes ==
  {"class", "ancestry", "skill", "general", "archetype", "mythic", "ancestryParagon"}

\* The first switch of getFeatsForLevel: the levels that grant the type.
FeatLevelsArray(actor, type) ==
  CASE type = "archetype" -> FREE_ARCHETYPE_FEAT_LEVELS
    [] type = "mythic" -> MYTHIC_FEAT_LEVELS
    [] type = "ancestryParagon" -> ANCESTRY_PARAGON_FEAT_LEVELS
    [] OTHER -> IF actor.classItem = NoClass THEN <<>>
                ELSE LevelsOf(actor.classItem, type \o "FeatLevels")

\* The second switch of getFeatsForLevel: the search query, as the array
\* filterFeats makes of it; <<>> stands for a falsy query.
SearchQuery(actor, type, level, dualClassName) ==
  CASE type = "class" ->
         IF dualClassName # Null THEN <<dualClassName>>
         ELSE IF actor.classItem = NoClass THEN <<>>
         ELSE <<actor.classItem.name>>
    [] type \in {"ancestry", "ancestryParagon"} ->
         <<actor.ancestry>> \o
         (IF actor.heritage = Null THEN <<>>
          ELSE <<actor.heritage>> \o
               (IF actor.heritage = "Aiuvarin" THEN <<"Elf">>
                ELSE IF actor.heritage = "Dromaar" THEN <<"Orc">>
                ELSE <<>>))
    [] type = "mythic" ->
         IF level = DestinyFeatLevel THEN <<"mythic", "destiny">>
         ELSE <<"mythic">>
    [] OTHER -> <<type>>

\* archetypeFeats.forEach / filter: the archetype feats offered with the
\* class feats, marked, without those whose slug is among the class feats.
MarkArchetype(feat) == [feat EXCEPT !.isArchetypeFeat = Bool(TRUE)]

UniqueArchetypeFeats(archetypeFeats, feats) ==
  LET Fresh(a) == ~\E k \in 1..Len(feats) : feats[k].slug = a.slug
      marked == [k \in 1..Len(archetypeFeats) |-> MarkArchetype(archetypeFeats[k])]
  IN SelectSeq(marked, Fresh)

\* The class feats after the marking pass: a cached feat that is in both
\* lists is the same object and ends with isArchetypeFeat false.
MarkShared(feats, archetypeFeats) ==
  [k \in 1..Len(feats) |->
     IF \E j \in 1..Len(archetypeFeats) : archetypeFeats[j].slug = feats[k].slug
     THEN [feats[k] EXCEPT !.isArchetypeFeat = Bool(FALSE)]
     ELSE feats[k]]

\* getFeatsForLevel(actor, type, level, { dualClassName })
getFeatsForLevel(actor, type, level, dualClassName) ==
  IF type \notin QueryFeatTypes THEN Returned(<<>>)
  ELSE IF ~Includes(FeatLevelsArray(actor, type), level) THEN Returned(<<>>)
  ELSE LET searchQuery == SearchQuery(actor, type, level, dualClassName)
           existingFeats == actor.feats
           feats == filterFeats(searchQuery, level, existingFeats)
           archetypeFeats ==
             IF type = "class"
             THEN filterFeats(<<"archetype">>, level, existingFeats)
             ELSE <<>>
           allFeats == MarkShared(feats, archetypeFeats) \o
                       UniqueArchetypeFeats(archetypeFeats, feats)
           sortMethod == SettingsGet("intrinsics-pf2e-level-up-wizard.feat-sort-method")
       IN IF searchQuery = <<>> THEN Returned(<<>>)
          ELSE IF sortMethod.threw THEN Threw
          ELSE Returned(sortFeats(allFeats, sortMethod.value))

\* The worlds of the feat queries: the client's feat-sort-method.
SortHost(method) ==
  Host(("intrinsics-pf2e-level-up-wizard.feat-sort-method" :> method), FALSE)

FeatHosts == { SortHost("LEVEL_DESC"), SortHost("LEVEL_ASC"), SortHost("ALPHABETICAL") }

FighterClass ==
  ClassItem("fighter", "Fighter",
            <<1, 2, 4, 6, 8, 10, 12, 14, 16, 18, 20>>, <<1, 5, 9, 13, 17>>,
            <<2, 4, 6, 8, 10, 12, 14, 16, 18, 20>>, <<3, 7, 11, 15, 19>>,
            <<3, 5, 7, 9, 11, 13, 15, 17, 19>>)

RuneSmithClass ==
  ClassItem(Null, "Rune Smith",
            <<1, 2, 4, 6, 8, 10, 12, 14, 16, 18, 20>>, <<1, 5, 9, 13, 17>>,
            <<2, 4, 6, 8, 10, 12, 14, 16, 18, 20>>, <<3, 7, 11, 15, 19>>,
            <<3, 5, 7, 9, 11, 13, 15, 17, 19>>)

FeatActors ==
  { FeatActor(FighterClass, "Human", "Aiuvarin", <<>>),
    FeatActor(FighterClass, "Elf", Null, <<"Sudden Charge", "Additional Lore">>),
    FeatActor(RuneSmithClass, "Human", "Dromaar", <<"SUDDEN CHARGE", "Beast Lord">>),
    FeatActor(NoClass, Null, Null, <<"Mythic Strike">>) }

\* The queries filterFeats is called with directly.
FilterQueries ==
  { <<"Fighter">>, <<"archetype">>, <<"general">>, <<"skill">>, <<"destiny">>,
    <<"mythic", "destiny">>, <<"Human", "Aiuvarin", "Elf">>, <<Null>>,
    <<"Fighter", "general">> }

DualClassNames == {Null, "Rune Smith"}

CallFilterFeats(searchQueries, level) ==
  /\ qcall.fn = Null
  /\ qcall' = Call("filterFeats", searchQueries, level,
                   Returned(filterFeats(searchQueries, level, qactor.feats)))
  /\ queryFrame

CallGetFeatsForLevel(type, level, dualClassName) ==
  /\ qcall.fn = Null
  /\ qcall' = Call("getFeatsForLevel", <<type, dualClassName>>, level,
                   getFeatsForLevel(qactor, type, level, dualClassName))
  /\ queryFrame

InitFeatQuery ==
  /\ qhost \in FeatHosts
  /\ qactor \in FeatActors
  /\ qcall = NoCall

NextFeatQuery ==
  \/ \E searchQueries \in FilterQueries, level \in Levels :
       CallFilterFeats(searchQueries, level)
  \/ \E type \in QueryFeatTypes \cup {"bonus"}, level \in Levels, dualClassName \in DualClassNames :
       CallGetFeatsForLevel(type, level, dualClassName)

(***************************************************************************)
(*   Spell queries: getSpellTradition and getSpellsForRank (spell-helpers)  *)
(***************************************************************************)
UpperLetters == "ABCDEFGHIJKLMNOPQRSTUVWXYZ"
LowerLetters == "abcdefghijklmnopqrstuvwxyz"

CharAt(s, i) == SubSeq(s, i, i)

LowerChar(c) ==
  LET hits == {i \in 1..Len(UpperLetters) : CharAt(UpperLetters, i) = c}
  IN IF hits = {} THEN c ELSE CharAt(LowerLetters, CHOOSE i \in hits : TRUE)

\* String.prototype.toLowerCase, letter by letter.
RECURSIVE LowerCase(_)
LowerCase(s) ==
  IF s = "" THEN ""
  ELSE LowerCase(SubSeq(s, 1, Len(s) - 1)) \o LowerChar(CharAt(s, Len(s)))

\* s.replace(/\s+/g, '-'): every run of blanks becomes one hyphen.
RECURSIVE HyphenateBlanks(_)
HyphenateBlanks(s) ==
  IF s = "" THEN ""
  ELSE LET front == SubSeq(s, 1, Len(s) - 1)
           c == CharAt(s, Len(s))
       IN IF c # " " THEN HyphenateBlanks(front) \o c
          ELSE IF front # "" /\ CharAt(front, Len(front)) = " " THEN HyphenateBlanks(front)
          ELSE HyphenateBlanks(front) \o "-"

\* String.prototype.includes and startsWith.
StrIncludes(s, needle) ==
  \E i \in 1..(Len(s) - Len(needle) + 1) : SubSeq(s, i, i + Len(needle) - 1) = needle

StartsWith(s, prefix) ==
  Len(prefix) <= Len(s) /\ SubSeq(s, 1, Len(prefix)) = prefix

\* An item of the actor as the spell helpers read it: category is
\* system.category, tradition is system.tradition.value (Null when the item
\* records none).
SItem(type, name, slug, category, tradition) ==
  [type |-> type, name |-> name, slug |-> slug, category |-> category,
   tradition |-> tradition]

\* its.find(...) found nothing.
NotFound == [found |-> FALSE]

\* The index of the first item of a set of matching indices, 0 for none.
FirstOf(indices) ==
  IF indices = {} THEN 0
  ELSE CHOOSE i \in indices : \A j \in indices : i <= j

ItemAt(its, k) == IF k = 0 THEN NotFound ELSE its[k]

\* A value JavaScript treats as false where a string is expected.
Falsy(value) == value = Null \/ value = ""

\* actor.items.find(i => i.type === 'class')
ClassOf(actor) ==
  ItemAt(actor.items, FirstOf({k \in 1..Len(actor.items) : actor.items[k].type = "class"}))

\* getClassSlug(classItem)
getClassSlug(classItem) ==
  IF classItem = NotFound THEN Null
  ELSE IF ~Falsy(classItem.slug) THEN classItem.slug
  ELSE HyphenateBlanks(LowerCase(classItem.name))

\* The six searches of getClassSpellcastingEntry: the indices each step's
\* predicate accepts.
EntryMatches(actor, step) ==
  LET its == actor.items
      classItem == ClassOf(actor)
      className == IF classItem = NotFound \/ Falsy(classItem.name) THEN ""
                   ELSE classItem.name
      classNameLower == LowerCase(className)
      entries == {k \in 1..Len(its) : its[k].type = "spellcastingEntry"}
      Name(k) == LowerCase(its[k].name)
  IN CASE step = 1 ->
            {k \in entries : StrIncludes(Name(k), classNameLower \o " spellcasting")}
       [] step = 2 ->
            {k \in entries : StrIncludes(Name(k), classNameLower \o " spells")}
       [] step = 3 ->
            {k \in entries : /\ StartsWith(Name(k), classNameLower)
                             /\ ~StrIncludes(Name(k), "focus")}
       [] step = 4 ->
            {k \in entries : its[k].category = "class"}
       [] step = 5 ->
            {k \in entries : /\ ~StrIncludes(Name(k), "focus")
                             /\ \/ StrIncludes(Name(k), "spells")
                                \/ StrIncludes(Name(k), "spellcasting")}
       [] OTHER -> entries

\* The index getClassSpellcastingEntry returns with the first step after
\* `step` when the earlier ones found nothing.
RECURSIVE EntryFrom(_, _)
EntryFrom(actor, step) ==
  IF step > 6 THEN 0
  ELSE IF EntryMatches(actor, step) # {} THEN FirstOf(EntryMatches(actor, step))
  ELSE EntryFrom(actor, step + 1)

\* getClassSpellcastingEntry(actor)
getClassSpellcastingEntry(actor) == ItemAt(actor.items, EntryFrom(actor, 1))

\* The keyword tests of getSorcererTradition, in their order.
BloodlineKeywords ==
  << <<"aberrant", "occult">>, <<"angelic", "divine">>, <<"demonic", "divine">>,
     <<"diabolic", "divine">>, <<"draconic", "arcane">>, <<"elemental", "primal">>,
     <<"fey", "primal">>, <<"hag", "occult">>, <<"imperial", "arcane">>,
     <<"undead", "divine">>, <<"wyrmblessed", "divine">>, <<"psychopomp", "divine">>,
     <<"nymph", "primal">>, <<"genie", "arcane">>, <<"phoenix", "primal">> >>

\* getSorcererTradition(actor)
getSorcererTradition(actor) ==
  LET its == actor.items
      bloodlineItem ==
        ItemAt(its, FirstOf({k \in 1..Len(its) :
                                 StrIncludes(LowerCase(its[k].name), "bloodline")}))
  IN IF bloodlineItem = NotFound THEN "arcane"
     ELSE LET bloodlineName == LowerCase(bloodlineItem.name)
              slug == LowerCase(IF Falsy(bloodlineItem.slug) THEN "" ELSE bloodlineItem.slug)
              searchText == bloodlineName \o " " \o slug
              hit == FirstOf({k \in 1..Len(BloodlineKeywords) :
                                StrIncludes(searchText, BloodlineKeywords[k][1])})
          IN IF hit = 0 THEN "arcane" ELSE BloodlineKeywords[hit][2]

\* getWitchTradition(actor)
getWitchTradition(actor) ==
  LET its == actor.items
      patronItem ==
        ItemAt(its, FirstOf({k \in 1..Len(its) :
                                 /\ its[k].type = "feat"
                                 /\ its[k].category = "classfeature"
                                 /\ StrIncludes(LowerCase(its[k].name), "patron")}))
  IN IF patronItem # NotFound /\ ~Falsy(patronItem.tradition)
     THEN patronItem.tradition
     ELSE "occult"

\* The traditions object of getSpellTradition, read at a slug:
\* traditions[slug] || null.
ClassTradition(actor, slug) ==
  CASE slug = "wizard" -> "arcane"
    [] slug = "sorcerer" -> getSorcererTradition(actor)
    [] slug = "cleric" -> "divine"
    [] slug = "druid" -> "primal"
    [] slug = "bard" -> "occult"
    [] slug = "oracle" -> "divine"
    [] slug = "witch" -> getWitchTradition(actor)
    [] slug = "magus" -> "arcane"
    [] slug = "summoner" -> "arcane"
    [] slug = "psychic" -> "occult"
    [] slug = "animist" -> "divine"
    [] slug = "necromancer" -> "occult"
    [] OTHER -> Null

\* getSpellTradition(actor)
getSpellTradition(actor) ==
  LET classSpellcastingEntry == getClassSpellcastingEntry(actor)
      classItem == ClassOf(actor)
  IN IF classSpellcastingEntry # NotFound /\ ~Falsy(classSpellcastingEntry.tradition)
     THEN classSpellcastingEntry.tradition
     ELSE IF classItem = NotFound THEN Null
     ELSE ClassTradition(actor, getClassSlug(classItem))

\* The filters getSpellsForRank passes to dataProvider.getSpells; rarity
\* Undefined and an empty knownSpells switch their filter off.
SpellFilters(rank, tradition, rarity, knownSpells) ==
  [rank |-> rank, tradition |-> tradition, rarity |-> rarity,
   knownSpells |-> knownSpells]

\* dataProvider.getSpells(filters) without the exclusion of known spells.
getSpellsKeepingKnown(filters) ==
  LET Keep(spell) ==
        /\ spell.rank = filters.rank
        /\ Falsy(filters.tradition) \/ filters.tradition \in spell.traditions
        /\ filters.rarity = Undefined \/ spell.rarity = filters.rarity
  IN SelectSeq(SpellPack, Keep)

\* dataProvider.getSpells(filters) over the loaded spells.
getSpellsFiltered(filters) ==
  LET Keep(spell) ==
        /\ spell.rank = filters.rank
        /\ Falsy(filters.tradition) \/ filters.tradition \in spell.traditions
        /\ filters.rarity = Undefined \/ spell.rarity = filters.rarity
        /\ ~\E k \in 1..Len(filters.knownSpells) :
              LowerCase(filters.knownSpells[k].name) = LowerCase(spell.name)
  IN SelectSeq(SpellPack, Keep)

\* getSpellsForRank(actor, rank, { includeUncommon, excludeKnown })
getSpellsForRank(actor, rank, includeUncommon, excludeKnown) ==
  LET tradition == getSpellTradition(actor)
      IsSpell(item) == item.type = "spell"
      existingSpells == SelectSeq(actor.items, IsSpell)
  IN IF Falsy(tradition) THEN <<>>
     ELSE getSpellsFiltered(SpellFilters(rank, tradition,
                                         IF includeUncommon THEN Undefined ELSE "common",
                                         IF excludeKnown THEN existingSpells ELSE <<>>))

SpellActor(its) == [items |-> its]

ClassIt(name, slug) == SItem("class", name, slug, Null, Null)
EntryIt(name, category, tradition) == SItem("spellcastingEntry", name, Null, category, tradition)
FeatureIt(name, slug, tradition) == SItem("feat", name, slug, "classfeature", tradition)
SpellIt(name) == SItem("spell", name, Null, Null, Null)

SpellActors ==
  { SpellActor(<< ClassIt("Wizard", "wizard"),
                  EntryIt("Wizard Focus Spells", "focus", "occult"),
                  EntryIt("Wizard Spellcasting", "prepared", "arcane"),
                  SpellIt("LIGHT"), SpellIt("Grease") >>),
    SpellActor(<< ClassIt("Necromancer", Null),
                  EntryIt("Focus Spells", "focus", "divine"),
                  EntryIt("Necromancer Spells", "prepared", "occult") >>),
    SpellActor(<< ClassIt("Cleric", "cleric"),
                  EntryIt("Cleric Focus", "focus", "occult"),
                  EntryIt("Cleric Font", "prepared", "divine"),
                  SpellIt("Bless"), SpellIt("Infuse Vitality") >>),
    SpellActor(<< ClassIt("Druid", "druid"),
                  EntryIt("Order Focus", "focus", "occult"),
                  EntryIt("Primal Prepared", "class", "primal") >>),
    SpellActor(<< ClassIt("Bard", "bard"),
                  EntryIt("Focus Compositions", "focus", "divine"),
                  EntryIt("Occult Spontaneous Spells", "spontaneous", "occult") >>),
    SpellActor(<< ClassIt("Oracle", "oracle"),
                  EntryIt("Revelation Focus", "focus", "arcane") >>),
    SpellActor(<< ClassIt("Cleric", "cleric"),
                  EntryIt("Cleric Spellcasting", "prepared", Null),
                  EntryIt("Arcane Innate Spells", "innate", "arcane"),
                  SpellIt("Light") >>),
    SpellActor(<< ClassIt("Wizard", "wizard"), SpellIt("Grease") >>),
    SpellActor(<< ClassIt("Rune Smith", Null) >>),
    SpellActor(<< ClassIt("Sorcerer", "sorcerer") >>),
    SpellActor(<< ClassIt("Sorcerer", "sorcerer"),
                  FeatureIt("Draconic Bloodline", "draconic-bloodline", Null),
                  EntryIt("Sorcerer Spellcasting", "spontaneous", "") >>),
    SpellActor(<< ClassIt("Sorcerer", "sorcerer"),
                  FeatureIt("Bloodline: Fey", Null, Null) >>),
    SpellActor(<< ClassIt("Sorcerer", "sorcerer"),
                  FeatureIt("Bloodline", "bloodline-angelic", Null), SpellIt("bless") >>),
    SpellActor(<< ClassIt("Sorcerer", "sorcerer"),
                  FeatureIt("Shadow Bloodline", "shadow-bloodline", Null) >>),
    SpellActor(<< ClassIt("Witch", "witch"),
                  FeatureIt("Patron: Faith's Flamekeeper", "faiths-flamekeeper", "divine") >>),
    SpellActor(<< ClassIt("Witch", "witch"),
                  FeatureIt("Patron", "patron", Null) >>),
    SpellActor(<< ClassIt("Witch", "witch") >>),
    SpellActor(<< SpellIt("Light") >>),
    SpellActor(<< EntryIt("Focus Spells", "focus", "divine"),
                  EntryIt("Arcane Innate Spells", "innate", "arcane") >>) }

SpellRanks == 0..10

CallGetSpellTradition ==
  /\ qcall.fn = Null
  /\ qcall' = Call("getSpellTradition", "actor", 0, Returned(getSpellTradition(qactor)))
  /\ queryFrame

CallGetSpellsForRank(rank, includeUncommon, excludeKnown) ==
  /\ qcall.fn = Null
  /\ qcall' = Call("getSpellsForRank", <<includeUncommon, excludeKnown>>, rank,
                   Returned(getSpellsForRank(qactor, rank, includeUncommon, excludeKnown)))
  /\ queryFrame

InitSpellQuery ==
  /\ qhost = SystemOff
  /\ qactor \in SpellActors
  /\ qcall = NoCall

NextSpellQuery ==
  \/ CallGetSpellTradition
  \/ \E rank \in SpellRanks, includeUncommon \in BOOLEAN, excludeKnown \in BOOLEAN :
       CallGetSpellsForRank(rank, includeUncommon, excludeKnown)

(***************************************************************************)
(*   Variant-rule drift: compareVariantRules and                           *)
(*   validateVariantRulesCompatibility (variant-rules-helpers)              *)
(***************************************************************************)
\* One entry of compareVariantRules' differences.
Difference(rule, old, new) == [rule |-> rule, old |-> old, new |-> new]

\* differences.push(...) when the two values differ.
PushIfDiffers(rule, old, new) ==
  IF old # new THEN <<Difference(rule, old, new)>> ELSE <<>>

\* compareVariantRules(rules1, rules2)
compareVariantRules(rules1, rules2) ==
  LET differences ==
        PushIfDiffers("Free Archetype", rules1.freeArchetype, rules2.freeArchetype)
        \o PushIfDiffers("Gradual Ability Boosts", rules1.gradualBoosts, rules2.gradualBoosts)
        \o PushIfDiffers("Ancestry Paragon", rules1.ancestryParagon, rules2.ancestryParagon)
        \o PushIfDiffers("Dual Class", rules1.dualClass, rules2.dualClass)
        \o PushIfDiffers("Mythic", rules1.mythic, rules2.mythic)
        \o PushIfDiffers("Automatic Bonus Progression", rules1.abp, rules2.abp)
  IN [matches |-> Len(differences) = 0, differences |-> differences]

\* warnings.push(text) when the condition holds.
WarnIf(condition, text) == IF condition THEN <<text>> ELSE <<>>

\* validateVariantRulesCompatibility with the three critical tests replaced
\* by plain inequality.
validateBothDirections(planRules, currentRules) ==
  LET warnings ==
        WarnIf(planRules.freeArchetype # currentRules.freeArchetype,
               "Build plan expects Free Archetype but it is disabled")
        \o WarnIf(planRules.mythic # currentRules.mythic,
                  "Build plan expects Mythic but it is disabled")
        \o WarnIf(planRules.dualClass # currentRules.dualClass,
                  "Build plan expects Dual Class but it is disabled")
        \o WarnIf(planRules.gradualBoosts # currentRules.gradualBoosts,
                  "Gradual Ability Boosts setting has changed")
        \o WarnIf(planRules.ancestryParagon # currentRules.ancestryParagon,
                  "Ancestry Paragon setting has changed")
        \o WarnIf(planRules.abp # currentRules.abp,
                  "Automatic Bonus Progression setting has changed")
  IN [compatible |-> Len(warnings) = 0, warnings |-> warnings]

\* validateVariantRulesCompatibility(planRules, currentRules)
validateVariantRulesCompatibility(planRules, currentRules) ==
  LET warnings ==
        WarnIf(planRules.freeArchetype /\ ~currentRules.freeArchetype,
               "Build plan expects Free Archetype but it is disabled")
        \o WarnIf(planRules.mythic = "enabled" /\ currentRules.mythic # "enabled",
                  "Build plan expects Mythic but it is disabled")
        \o WarnIf(planRules.dualClass /\ ~currentRules.dualClass,
                  "Build plan expects Dual Class but it is disabled")
        \o WarnIf(planRules.gradualBoosts # currentRules.gradualBoosts,
                  "Gradual Ability Boosts setting has changed")
        \o WarnIf(planRules.ancestryParagon # currentRules.ancestryParagon,
                  "Ancestry Paragon setting has changed")
        \o WarnIf(planRules.abp # currentRules.abp,
                  "Automatic Bonus Progression setting has changed")
  IN [compatible |-> Len(warnings) = 0, warnings |-> warnings]

\* The rule sets a plan snapshot or a world can hold.
AllRuleSets ==
  { VariantRules(fa, gb, ap, dc, my, abp) :
      fa \in BOOLEAN, gb \in BOOLEAN, ap \in BOOLEAN, dc \in BOOLEAN,
      my \in {"disabled", "enabled"},
      abp \in {"noABP", "ABPFundamentalPotency", "ABPRulesAsWritten"} }

CallCompareVariantRules(rules1, rules2) ==
  /\ qcall.fn = Null
  /\ qcall' = Call("compareVariantRules", <<rules1, rules2>>, 0,
                   Returned(compareVariantRules(rules1, rules2)))
  /\ queryFrame

CallValidateVariantRulesCompatibility(planRules, currentRules) ==
  /\ qcall.fn = Null
  /\ qcall' = Call("validateVariantRulesCompatibility", <<planRules, currentRules>>, 0,
                   Returned(validateVariantRulesCompatibility(planRules, currentRules)))
  /\ queryFrame

InitRules == IdleQuery

NextRules ==
  /\ qcall.fn = Null
  /\ \/ \E rules1 \in AllRuleSets, rules2 \in AllRuleSets :
          CallCompareVariantRules(rules1, rules2)
     \/ \E planRules \in AllRuleSets, currentRules \in AllRuleSets :
          CallValidateVariantRulesCompatibility(planRules, currentRules)

(***************************************************************************)
(*     Plan validation: validateLevelChoices and validateBuildPlan          *)
(*     (scripts/validators.js)                                              *)
(***************************************************************************)
\* featSlots.<key> > 0: a missing key is undefined, and undefined > 0 is false.
HasSlot(featSlots, key) == key \in DOMAIN featSlots /\ featSlots[key] > 0

\* choices.<list>?.length || 0
LengthOr0(list) == IF list.t = "arr" THEN Len(list.v) ELSE 0

\* errors.push(text) / warnings.push(text) under a condition.
PushIf(condition, text) == IF condition THEN <<text>> ELSE <<>>

\* isSpellcaster(actor)
isSpellcaster(actor) ==
  /\ actor.classItem # NoClass
  /\ actor.classItem.slug \in
       {"wizard", "sorcerer", "cleric", "druid", "bard", "oracle", "witch", "magus",
        "summoner", "psychic", "animist", "necromancer"}

\* getNewSpellRankAtLevel(actor, level) of the class-features helpers; 0 for null.
getNewSpellRankAtLevel(actor, level) ==
  LET fullCasters == {"wizard", "sorcerer", "cleric", "druid", "bard", "oracle", "witch",
                      "psychic", "animist", "necromancer"}
      partialCasters == {"magus", "summoner"}
      Min(a, b) == IF a < b THEN a ELSE b
  IN IF actor.classItem = NoClass THEN 0
     ELSE IF actor.classItem.slug \in fullCasters /\ level % 2 = 1
     THEN Min((level + 1) \div 2, 10)
     ELSE IF actor.classItem.slug \in partialCasters /\ level % 2 = 1
     THEN Min((level + 1) \div 2, 6)
     ELSE 0

\* The rank key `rank${newRank}` of choices.spells.
RankKey(newRank) == "rank" \o ToString(newRank)

\* The spell warning of validateLevelChoices.
SpellWarnings(actor, level, levelChoices) ==
  LET newRank == getNewSpellRankAtLevel(actor, level)
      spells == Get(levelChoices, "spells")
      spellsForRank == Get(spells, RankKey(newRank))
      autoLearns == actor.classItem.slug \in {"cleric", "druid", "animist"}
  IN PushIf(/\ isSpellcaster(actor)
            /\ newRank # 0
            /\ Truthy(spells)
            /\ ~autoLearns
            /\ LengthOr0(spellsForRank) = 0,
            "No spells selected for rank " \o ToString(newRank))

\* The skill-increase test of validateLevelChoices with the surplus reported too.
SkillIncreaseErrorsBothWays(expected, got) ==
  PushIf(expected > 0 /\ got # expected,
         "Expected " \o ToString(expected) \o " skill increases, got " \o ToString(got))

\* The skill-increase test of validateLevelChoices.
SkillIncreaseErrors(expected, got) ==
  PushIf(expected > 0 /\ got < expected,
         "Expected " \o ToString(expected) \o " skill increases, got " \o ToString(got))

\* The ability-boost test of validateLevelChoices.
AbilityBoostErrors(boostInfo, got) ==
  IF ~(boostInfo.hasBoosts /\ boostInfo.count > 0) THEN <<>>
  ELSE IF got < boostInfo.count
  THEN <<"Expected " \o ToString(boostInfo.count) \o " ability boosts, got " \o ToString(got)>>
  ELSE IF got > boostInfo.count
  THEN <<"Too many ability boosts: expected " \o ToString(boostInfo.count)
           \o ", got " \o ToString(got)>>
  ELSE <<>>

\* What validateLevelChoices returns.
Validation(errors, warnings) ==
  [valid |-> Len(errors) = 0, errors |-> errors, warnings |-> warnings]

\* validateLevelChoices(actor, level, choices): the result, or an exception
\* when a helper's unguarded settings read throws.
validateLevelChoices(actor, level, levelChoices) ==
  IF ~Truthy(levelChoices) THEN Returned(Validation(<<"No choices provided">>, <<>>))
  ELSE LET slotsRead == getFeatSlotsForLevel(actor, level)
           boostRead == detectAbilityBoosts(actor, level)
           featSlots == slotsRead.value
           Missing(key) == ~Truthy(Get(levelChoices, key))
           errors ==
             PushIf(HasSlot(featSlots, "class") /\ Missing("classFeats"),
                    "Class feat is required")
             \o PushIf(HasSlot(featSlots, "ancestry") /\ Missing("ancestryFeats"),
                       "Ancestry feat is required")
             \o PushIf(HasSlot(featSlots, "skill") /\ Missing("skillFeats"),
                       "Skill feat is required")
             \o PushIf(HasSlot(featSlots, "general") /\ Missing("generalFeats"),
                       "General feat is required")
             \o AbilityBoostErrors(boostRead.value,
                                   LengthOr0(Get(levelChoices, "abilityBoosts")))
             \o SkillIncreaseErrors(getSkillIncreasesForLevel(actor, level),
                                    LengthOr0(Get(levelChoices, "skillIncreases")))
           warnings ==
             PushIf(HasSlot(featSlots, "archetype") /\ Missing("freeArchetypeFeats"),
                    "Free archetype feat not selected")
             \o PushIf(HasSlot(featSlots, "mythic") /\ Missing("mythicFeats"),
                       "Mythic feat not selected")
             \o PushIf(HasSlot(featSlots, "ancestryParagon") /\ Missing("ancestryParagonFeats"),
                       "Ancestry paragon feat not selected")
             \o PushIf(HasSlot(featSlots, "dualClass") /\ Missing("dualClassFeats"),
                       "Dual class feat not selected")
             \o SpellWarnings(actor, level, levelChoices)
       IN IF slotsRead.threw \/ boostRead.threw THEN Threw
          ELSE Returned(Validation(errors, warnings))

\* The rule object of a plan and the rules detectVariantRules() reports, as
\* plain values.
PlanRulesOf(plan) ==
  LET rules == Get(plan, "variantRules")
  IN VariantRules(Get(rules, "freeArchetype").v, Get(rules, "gradualBoosts").v,
                  Get(rules, "ancestryParagon").v, Get(rules, "dualClass").v,
                  Get(rules, "mythic").v, Get(rules, "abp").v)

CurrentRules ==
  LET rules == detectVariantRules
  IN [rules EXCEPT !.mythic = rules.mythic.v, !.abp = rules.abp.v]

\* The level loop of validateBuildPlan after levels 1..level: the
\* levelErrors object so far, or an exception.
RECURSIVE LevelErrors(_, _, _)
LevelErrors(actor, plan, level) ==
  IF level = 0 THEN Returned(<<>>)
  ELSE LET sofar == LevelErrors(actor, plan, level - 1)
           levelChoices == Get(Get(Get(plan, "levels"), level), "choices")
           levelValidation == validateLevelChoices(actor, level, levelChoices)
       IN IF sofar.threw THEN Threw
          ELSE IF ~Truthy(levelChoices)
          THEN Returned(sofar.value @@ (level :> <<"No choices for this level">>))
          ELSE IF levelValidation.threw THEN Threw
          ELSE IF ~levelValidation.value.valid
          THEN Returned(sofar.value @@ (level :> levelValidation.value.errors))
          ELSE sofar

\* What validateBuildPlan returns.
PlanValidation(errors, levelErrors) ==
  [valid |-> Len(errors) = 0 /\ DOMAIN levelErrors = {}, errors |-> errors,
   levelErrors |-> levelErrors]

\* validateBuildPlan(actor, plan)
validateBuildPlan(actor, plan) ==
  IF ~Truthy(plan) THEN Returned(PlanValidation(<<"No build plan provided">>, <<>>))
  ELSE IF ~Truthy(Get(plan, "levels"))
  THEN Returned(PlanValidation(<<"Build plan has no levels">>, <<>>))
  ELSE LET rulesValidation == validateVariantRulesCompatibility(PlanRulesOf(plan), CurrentRules)
           errors == IF rulesValidation.compatible THEN <<>> ELSE rulesValidation.warnings
           levelErrors == LevelErrors(actor, plan, 20)
       IN IF levelErrors.threw THEN Threw
          ELSE Returned(PlanValidation(errors, levelErrors.value))

\* The plans handed to the validator: a new plan, and plans with boosts,
\* skill increases and feats chosen.
FourBoosts == Arr(<<Str("str"), Str("dex"), Str("con"), Str("wis")>>)
FiveBoosts == Arr(<<Str("str"), Str("dex"), Str("con"), Str("wis"), Str("cha")>>)

NewPlan ==
  createNewPlan(1, VariantRules(FALSE, FALSE, FALSE, FALSE, "disabled", "noABP"), CreatedAt)

BoostedPlan ==
  WithChoice(WithChoice(WithChoice(WithChoice(NewPlan, 5, "abilityBoosts", FourBoosts),
                                   10, "abilityBoosts", FourBoosts),
                        15, "abilityBoosts", FourBoosts),
             20, "abilityBoosts", FourBoosts)

WithoutLevel(plan, level) ==
  [plan EXCEPT !.v["levels"].v = [l \in DOMAIN @ \ {level} |-> @[l]]]

ValidatorPlans ==
  { JsNull,
    Obj([version |-> Str("1.0.0")]),
    NewPlan,
    BoostedPlan,
    WithChoice(BoostedPlan, 5, "abilityBoosts", FiveBoosts),
    WithChoice(BoostedPlan, 5, "abilityBoosts", Arr(<<Str("str")>>)),
    WithChoice(WithChoice(BoostedPlan, 3, "generalFeats", Str(FeatPack[2].uuid)),
               3, "skillIncreases", Arr(<<Str("athletics"), Str("stealth")>>)),
    WithChoice(WithChoice(BoostedPlan, 3, "generalFeats", Str(FeatPack[2].uuid)),
               3, "skillIncreases", Arr(<<Str("athletics")>>)),
    WithoutLevel(BoostedPlan, 7) }

ValidatorChoices ==
  { JsNull } \cup
  { ChoicesOf(plan, level) : plan \in ValidatorPlans \ {JsNull, Obj([version |-> Str("1.0.0")])},
                             level \in {3, 5} }

ValidatorActors ==
  { QueryActor(NoClass, 0),
    QueryActor(ClassItem("fighter", "Fighter",
                         <<1, 2, 4, 6, 8, 10, 12, 14, 16, 18, 20>>, <<1, 5, 9, 13, 17>>,
                         <<2, 4, 6, 8, 10, 12, 14, 16, 18, 20>>, <<3, 7, 11, 15, 19>>,
                         <<3, 5, 7, 9, 11, 13, 15, 17, 19>>), 0),
    QueryActor(BareClassItem("kineticist", "Kineticist"), 0),
    QueryActor(CasterClass("wizard", "Wizard"), 2) }

CallValidateLevelChoices(level, levelChoices) ==
  /\ qcall.fn = Null
  /\ qcall' = Call("validateLevelChoices", levelChoices, level,
                   validateLevelChoices(qactor, level, levelChoices))
  /\ queryFrame

CallValidateBuildPlan(plan) ==
  /\ qcall.fn = Null
  /\ qcall' = Call("validateBuildPlan", plan, 0, validateBuildPlan(qactor, plan))
  /\ queryFrame

InitValidator ==
  /\ qhost \in Hosts
  /\ qactor \in ValidatorActors
  /\ qcall = NoCall

NextValidator ==
  /\ qcall.fn = Null
  /\ \/ \E level \in Levels, levelChoices \in ValidatorChoices :
          CallValidateLevelChoices(level, levelChoices)
     \/ \E plan \in ValidatorPlans : CallValidateBuildPlan(plan)

(***************************************************************************)
(*     The toggles of the planner and of the level-up wizard                *)
(*     (BuildPlannerApp, LevelUpWizardApp._onToggleAbilityBoost /           *)
(*     _onToggleSkillIncrease)                                              *)
(***************************************************************************)
MaxToggles == 5

AbilityKeys == {"str", "dex", "con", "int", "wis"}
SkillKeys == {"athletics", "stealth", "arcana"}

\* target.classList.contains('selected'): the template marks the buttons
\* whose key is in the list, and the handlers add and remove the class as
\* they push and splice.
Selected(array, item) == \E k \in 1..Len(array) : array[k] = item

\* The list after a wizard handler ran on a button: spliced at indexOf when
\* the button was selected, pushed when it was not and there is room.
WizardToggled(array, item, selected, limit) ==
  LET at == {k \in 1..Len(array) : array[k] = item}
  IN IF selected
       THEN IF at # {}
              THEN LET index == CHOOSE k \in at : \A j \in at : k <= j
                   IN SubSeq(array, 1, index - 1) \o SubSeq(array, index + 1, Len(array))
              ELSE array
       ELSE IF Len(array) < limit THEN Append(array, item)
       ELSE array

wizardFrame ==
  <<targetLevel, classSlug, entry, tracksSource, alevel, items, skills, boosts, slots, apc,
    submits, prevDone, before, created>>

\* LevelUpWizardApp._onToggleAbilityBoost; detectAbilityBoosts is read only
\* for a button that is not selected, and its exception ends the handler.
WizardToggleAbilityBoost(ability) ==
  LET selected == Selected(choices.abilityBoosts, ability)
      abilityBoostInfo == detectAbilityBoosts(qactor, targetLevel)
  IN /\ apc = "idle"
     /\ IF ~selected /\ abilityBoostInfo.threw
          THEN UNCHANGED choices
          ELSE choices' = [choices EXCEPT !.abilityBoosts =
                 WizardToggled(@, ability, selected,
                               IF selected THEN 0 ELSE abilityBoostInfo.value.count)]
     /\ UNCHANGED wizardFrame
     /\ UNCHANGED notApply

\* LevelUpWizardApp._onToggleSkillIncrease
WizardToggleSkillIncrease(skill) ==
  LET selected == Selected(choices.skillIncreases, skill)
  IN /\ apc = "idle"
     /\ choices' = [choices EXCEPT !.skillIncreases =
            WizardToggled(@, skill, selected, getSkillIncreasesForLevel(qactor, targetLevel))]
     /\ UNCHANGED wizardFrame
     /\ UNCHANGED notApply

\* A click on an ability or a skill button of the planner.
PlannerToggleAbilityBoost(level, ability) ==
  /\ clicks < MaxToggles
  /\ onToggleAbilityBoost(level, ability)
  /\ clicks' = clicks + 1

PlannerToggleSkillIncrease(level, skill) ==
  /\ clicks < MaxToggles
  /\ onToggleSkillIncrease(level, skill)
  /\ clicks' = clicks + 1

ToggleRules ==
  { VariantRules(FALSE, FALSE, FALSE, FALSE, "disabled", "noABP"),
    VariantRules(FALSE, TRUE, FALSE, FALSE, "disabled", "noABP") }

ToggleLevels == {4, 5}


\* The planner open on a stored plan with the wizard closed, or the wizard
\* open on a new session with the planner closed.
InitToggles ==
  \/ /\ actorLevel = 3
     /\ worldRules \in ToggleRules
     /\ persisted = Stored(createNewPlan(actorLevel, worldRules, CreatedAt))
     /\ buildPlan = persisted
     /\ timers = {}
     /\ saveTimeout = 0
     /\ nextTimer = 1
     /\ sinceEdit = 0
     /\ firedAfter = Delay
     /\ saving = <<>>
     /\ lastSaveOk = TRUE
     /\ lastImport = NoImport
     /\ clicks = 0
     /\ IdleApply
     /\ IdleQuery
  \/ /\ IdlePlanner
     /\ choices = NoChoices
     /\ classSlug = Null
     /\ entry = NoEntry
     /\ targetLevel \in ToggleLevels
     /\ alevel = targetLevel - 1
     /\ tracksSource = FALSE
     /\ items = <<>>
     /\ skills = [athletics |-> 0, stealth |-> 0]
     /\ boosts = [b \in {5, 10, 15, 20} |-> <<>>]
     /\ slots = [rank \in 1..10 |-> [max |-> 0, value |-> 0]]
     /\ apc = "idle"
     /\ submits = 0
     /\ prevDone = FALSE
     /\ created = 0
     /\ before = Sheet
     /\ qhost \in Hosts
     /\ qactor \in ValidatorActors
     /\ qcall = NoCall

NextToggles ==
  \/ \E level \in ToggleLevels, ability \in AbilityKeys : PlannerToggleAbilityBoost(level, ability)
  \/ \E level \in ToggleLevels, skill \in SkillKeys : PlannerToggleSkillIncrease(level, skill)
  \/ \E ability \in AbilityKeys : WizardToggleAbilityBoost(ability)
  \/ \E skill \in SkillKeys : WizardToggleSkillIncrease(skill)

(***************************************************************************)
(*     The cached documents under the queries (DataProvider.getFeats /      *)
(*     getSpells, filterFeats, getFeatsForLevel)                            *)
(***************************************************************************)
\* Array.prototype.filter and the spread copy the array, not its elements:
\* the feats a query returns are the cached objects, read here by slug.
Aliased(result, docs) ==
  [k \in 1..Len(result) |->
     docs[CHOOSE j \in 1..Len(docs) : docs[j].slug = result[k].slug]]

\* The cached feats after getFeatsForLevel(actor, type, level): for type
\* 'class' the forEach over the archetype feats assigns isArchetypeFeat on
\* each of them, false for one that is a class feat too.
CachedFeatsAfter(docs, actor, type, level, dualClassName) ==
  LET searchQuery == SearchQuery(actor, type, level, dualClassName)
      feats == filterFeats(searchQuery, level, actor.feats)
      archetypeFeats == filterFeats(<<"archetype">>, level, actor.feats)
      In(list, feat) == \E j \in 1..Len(list) : list[j].slug = feat.slug
  IN IF \/ type \notin QueryFeatTypes
        \/ ~Includes(FeatLevelsArray(actor, type), level)
        \/ searchQuery = <<>>
        \/ type # "class"
     THEN docs
     ELSE [k \in 1..Len(docs) |->
             IF In(archetypeFeats, docs[k])
             THEN [docs[k] EXCEPT !.isArchetypeFeat = Bool(~In(feats, docs[k]))]
             ELSE docs[k]]

contentFrame ==
  <<packs, failing, loading, loads, reads, calls, clears, last, prereqVars, applyVars,
    roundTripVars, plannerVars, qhost, qactor>>

\* dataProvider.getFeats(): the cached array itself.
ContentGetFeats ==
  /\ qcall' = Call("getFeats", Null, 0, Returned(cache["feats"].docs))
  /\ UNCHANGED cache
  /\ UNCHANGED contentFrame

\* dataProvider.getSpells(filters)
ContentGetSpells(rank, tradition, rarity) ==
  /\ qcall' = Call("getSpells", <<tradition, rarity>>, rank,
                   Returned(getSpellsFiltered(SpellFilters(rank, tradition, rarity, <<>>))))
  /\ UNCHANGED cache
  /\ UNCHANGED contentFrame

\* filterFeats(searchQueries, level, existingFeats)
ContentFilterFeats(searchQueries, level) ==
  /\ qcall' = Call("filterFeats", searchQueries, level,
                   Returned(Aliased(filterFeats(searchQueries, level, qactor.feats),
                                    cache["feats"].docs)))
  /\ UNCHANGED cache
  /\ UNCHANGED contentFrame

\* getFeatsForLevel(actor, type, level, { dualClassName })
ContentGetFeatsForLevel(type, level, dualClassName) ==
  LET after == CachedFeatsAfter(cache["feats"].docs, qactor, type, level, dualClassName)
      result == getFeatsForLevel(qactor, type, level, dualClassName)
  IN /\ cache' = [cache EXCEPT !["feats"].docs = after]
     /\ qcall' = Call("getFeatsForLevel", <<type, dualClassName>>, level,
                      IF result.threw THEN Threw
                      ELSE Returned(Aliased(result.value, after)))
     /\ UNCHANGED contentFrame

ContentLevels == {1, 2, 4}

\* Both lists have been loaded by the bulk read.
InitContent ==
  /\ packs = AllSources /\ failing = {}
  /\ cache = [k \in Kinds |-> [load |-> IF k = "feats" THEN 1 ELSE 2,
                               docs |-> IF k = "feats" THEN FeatCache ELSE SpellPack]]
  /\ loading = [k \in Kinds |-> 0]
  /\ loads = << [kind |-> "feats", docs |-> FeatCache, stale |-> FALSE, idx |-> 0,
                 status |-> "resolved"],
                [kind |-> "spells", docs |-> SpellPack, stale |-> FALSE, idx |-> 0,
                 status |-> "resolved"] >>
  /\ reads = [s \in AllSources |-> 1]
  /\ calls = <<Finished("feats", "initiator"), Finished("spells", "initiator")>>
  /\ clears = 0
  /\ last = NoResult
  /\ qhost \in FeatHosts
  /\ qactor \in FeatActors
  /\ qcall = NoCall

NextContent ==
  \/ ContentGetFeats
  \/ \E rank \in {0, 1}, tradition \in {Null, "arcane"}, rarity \in {Undefined, "common"} :
       ContentGetSpells(rank, tradition, rarity)
  \/ \E searchQueries \in {<<"Fighter">>, <<"archetype">>, <<"general">>}, level \in ContentLevels :
       ContentFilterFeats(searchQueries, level)
  \/ \E type \in {"class", "general", "archetype"}, level \in ContentLevels :
       ContentGetFeatsForLevel(type, level, Null)

(***************************************************************************)
(*     Successive level-ups of one actor (LevelUpWizardApp constructor      *)
(*     and _onSubmit)                                                       *)
(***************************************************************************)
MaxLevel == 10

\* The boost lists a session can hold: the toggles admit a key only below
\* detectAbilityBoosts(actor, level).count.
BoostLists(level) ==
  { list \in { <<>>, <<"str", "dex", "con", "wis">>, <<"str", "dex", "int", "cha">> } :
      /\ ~detectAbilityBoosts(qactor, level).threw
      /\ Len(list) <= detectAbilityBoosts(qactor, level).value.count }

\* new LevelUpWizardApp(actor, level) for the level after the one just
\* applied, and the boosts chosen in it.
OpenWizard(level, chosen) ==
  /\ apc = "complete"
  /\ level = alevel + 1
  /\ level <= MaxLevel
  /\ chosen \in BoostLists(level)
  /\ targetLevel' = level
  /\ choices' = [NoChoices EXCEPT !.abilityBoosts = chosen]
  /\ apc' = "idle"
  /\ submits' = 0
  /\ prevDone' = FALSE
  /\ created' = 0
  /\ before' = Sheet
  /\ UNCHANGED <<classSlug, entry, tracksSource, alevel, items, skills, boosts, slots>>
  /\ UNCHANGED notApply

\* A first-level actor without a spellcasting class, in a world with the
\* standard or the gradual boost rule, opens the wizard for level 2.
InitLevels ==
  /\ qhost \in {HelperKeysOff, HelperKeysOn}
  /\ qactor = QueryActor(NoClass, 0)
  /\ qcall = NoCall
  /\ targetLevel = 2
  /\ choices \in {[NoChoices EXCEPT !.abilityBoosts = chosen] : chosen \in BoostLists(2)}
  /\ classSlug = Null
  /\ entry = NoEntry
  /\ alevel = 1
  /\ tracksSource = FALSE
  /\ items = <<>>
  /\ skills = [athletics |-> 0, stealth |-> 0]
  /\ boosts = [b \in {5, 10, 15, 20} |-> <<>>]
  /\ slots = [rank \in 1..10 |-> [max |-> 0, value |-> 0]]
  /\ apc = "idle"
  /\ submits = 0
  /\ prevDone = FALSE
  /\ created = 0
  /\ before = Sheet

NextLevels ==
  \/ NextApply
  \/ \E level \in 2..MaxLevel : \E chosen \in BoostLists(level) : OpenWizard(level, chosen)

(***************************************************************************)
(*     The wizard's spell selections (LevelUpStateManager.setChoice /       *)
(*     loadFromPlan, LevelUpWizardApp._onSelectSpell)                       *)
(***************************************************************************)
\* setChoice(category, value): a category that is not an own property of
\* this.choices is refused with a warning.
setChoice(held, category, value) ==
  IF category \notin DOMAIN held THEN held
  ELSE [held EXCEPT ![category] = value]

\* The level choices the wizard can load: those of a new plan, and those of
\* a plan in which the planner stored a spell list (choices[spellType]).
PlanLevelChoices ==
  { NoChoices,
    ("rank1Spells" :> <<SpellPack[3].uuid>>) @@ NoChoices,
    ("cantrips" :> <<SpellPack[1].uuid>>) @@ NoChoices }

\* The 'yes' of _showPlanPrompt, before a selector is used: loadFromPlan
\* replaces the choices by a deep clone of the plan's.
WizardLoadFromPlan(levelChoices) ==
  /\ apc = "idle"
  /\ qcall.fn = Null
  /\ choices' = levelChoices
  /\ UNCHANGED wizardFrame
  /\ UNCHANGED notApply

\* The selections a spell selector can confirm.
SelectorKeys == {"cantrips", "rank1Spells", "additionalRank1Spells"}
SelectorLists == { <<SpellPack[3].uuid>>, <<SpellPack[1].uuid, SpellPack[3].uuid>> }

\* The onConfirm callback of _onSelectSpell; qcall keeps what was confirmed.
WizardSelectSpell(spellType, spellUuids) ==
  /\ apc = "idle"
  /\ qcall.fn = Null
  /\ choices' = setChoice(choices, spellType, spellUuids)
  /\ qcall' = Call("onConfirm", spellType, 0, Returned(spellUuids))
  /\ UNCHANGED wizardFrame
  /\ UNCHANGED <<cacheVars, prereqVars, roundTripVars, plannerVars, qhost, qactor>>

\* The wizard open on a new session for a second-level wizard.
InitWizardSpells ==
  /\ choices = NoChoices
  /\ classSlug = "wizard"
  /\ entry = [id |-> "entry1", tradition |-> "arcane"]
  /\ targetLevel = 3
  /\ alevel = 2
  /\ tracksSource \in BOOLEAN
  /\ items \in OwnedBefore
  /\ skills = [athletics |-> 1, stealth |-> 0]
  /\ boosts = [b \in {5, 10, 15, 20} |-> <<>>]
  /\ slots = [rank \in 1..10 |->
                [max |-> SlotCount(getSpellSlotsAtLevel(classSlug, 2), rank),
                 value |-> SlotCount(getSpellSlotsAtLevel(classSlug, 2), rank)]]
  /\ apc = "idle"
  /\ submits = 0
  /\ prevDone = FALSE
  /\ created = 0
  /\ before = Sheet
  /\ IdleQuery

NextWizardSpells ==
  \/ \E levelChoices \in PlanLevelChoices : WizardLoadFromPlan(levelChoices)
  \/ \E spellType \in SelectorKeys, spellUuids \in SelectorLists :
       WizardSelectSpell(spellType, spellUuids)
  \/ NextApply

(***************************************************************************)
(*     The slot update of _onSubmit for actors with and without a           *)
(*     progression-table class                                              *)
(***************************************************************************)
\* The slots of an entry: rank -> max and current value.
EntrySlots(byRank) ==
  [rank \in 1..10 |-> [max |-> SlotCount(byRank, rank), value |-> SlotCount(byRank, rank)]]

\* A fighter and a kineticist whose spellcasting entry (an archetype's) has
\* slots of rank 1 and 2, and a wizard and a magus with their class entry.
SlotActors ==
  { [classSlug |-> "fighter", entry |-> [id |-> "entry1", tradition |-> "arcane"],
     slots |-> EntrySlots((1 :> 2) @@ (2 :> 1))],
    [classSlug |-> "kineticist", entry |-> [id |-> "entry1", tradition |-> "primal"],
     slots |-> EntrySlots((1 :> 1))],
    [classSlug |-> "wizard", entry |-> [id |-> "entry1", tradition |-> "arcane"],
     slots |-> EntrySlots(getSpellSlotsAtLevel("wizard", 4))],
    [classSlug |-> "magus", entry |-> [id |-> "entry1", tradition |-> "arcane"],
     slots |-> EntrySlots(getSpellSlotsAtLevel("magus", 4))] }

InitSlotUpdate ==
  /\ choices \in ApplyChoices
  /\ \E a \in SlotActors : classSlug = a.classSlug /\ entry = a.entry /\ slots = a.slots
  /\ targetLevel = 5
  /\ alevel = 4
  /\ tracksSource = TRUE
  /\ items \in OwnedBefore
  /\ skills = [athletics |-> 1, stealth |-> 0]
  /\ boosts = [b \in {5, 10, 15, 20} |-> <<>>]
  /\ apc = "idle"
  /\ submits = 0
  /\ prevDone = FALSE
  /\ created = 0
  /\ before = Sheet

(***************************************************************************)
(*                             Specifications                              *)
(***************************************************************************)
InitSpecCache ==
  InitCache /\ IdlePrereq /\ IdleApply /\ IdleRoundTrip /\ IdlePlanner /\ IdleQuery
SpecCache == InitSpecCache /\ [][NextCache]_vars

InitSpecPrereq ==
  InitPrereq /\ IdleCache /\ IdleApply /\ IdleRoundTrip /\ IdlePlanner /\ IdleQuery
SpecPrereq == InitSpecPrereq /\ [][NextPrereq]_vars

InitSpecApply ==
  InitApply /\ IdleCache /\ IdlePrereq /\ IdleRoundTrip /\ IdlePlanner /\ IdleQuery
SpecApply == InitSpecApply /\ [][NextApply]_vars

InitSpecRoundTrip ==
  InitRoundTrip /\ IdleCache /\ IdlePrereq /\ IdleApply /\ IdlePlanner /\ IdleQuery
SpecRoundTrip == InitSpecRoundTrip /\ [][NextRoundTrip]_vars

InitSpecPlanner ==
  InitPlanner /\ IdleCache /\ IdlePrereq /\ IdleApply /\ IdleRoundTrip /\ IdleQuery
SpecPlanner == InitSpecPlanner /\ [][NextPlanner]_vars

InitSpecAutoSave ==
  /\ InitPlanner
  /\ ~worldRules.freeArchetype
  /\ IdleCache /\ IdlePrereq /\ IdleApply /\ IdleRoundTrip /\ IdleQuery
SpecAutoSave == InitSpecAutoSave /\ [][NextAutoSave]_vars /\ FairAutoSave

InitSpecResolver ==
  InitResolver /\ IdleCache /\ IdlePrereq /\ IdleApply /\ IdleRoundTrip /\ IdlePlanner
SpecResolver == InitSpecResolver /\ [][NextResolver]_vars

InitSpecSlots ==
  InitSlots /\ IdleCache /\ IdlePrereq /\ IdleApply /\ IdleRoundTrip /\ IdlePlanner
SpecSlots == InitSpecSlots /\ [][NextSlots]_vars

InitSpecFeatQuery ==
  InitFeatQuery /\ IdleCache /\ IdlePrereq /\ IdleApply /\ IdleRoundTrip /\ IdlePlanner
SpecFeatQuery == InitSpecFeatQuery /\ [][NextFeatQuery]_vars

InitSpecSpellQuery ==
  InitSpellQuery /\ IdleCache /\ IdlePrereq /\ IdleApply /\ IdleRoundTrip /\ IdlePlanner
SpecSpellQuery == InitSpecSpellQuery /\ [][NextSpellQuery]_vars

InitSpecRules ==
  InitRules /\ IdleCache /\ IdlePrereq /\ IdleApply /\ IdleRoundTrip /\ IdlePlanner
SpecRules == InitSpecRules /\ [][NextRules]_vars

InitSpecValidator ==
  InitValidator /\ IdleCache /\ IdlePrereq /\ IdleApply /\ IdleRoundTrip /\ IdlePlanner
SpecValidator == InitSpecValidator /\ [][NextValidator]_vars

InitSpecToggles == InitToggles /\ IdleCache /\ IdlePrereq /\ IdleRoundTrip
SpecToggles == InitSpecToggles /\ [][NextToggles]_vars

InitSpecContent ==
  InitContent /\ IdlePrereq /\ IdleApply /\ IdleRoundTrip /\ IdlePlanner
SpecContent == InitSpecContent /\ [][NextContent]_vars

InitSpecLevels ==
  InitLevels /\ IdleCache /\ IdlePrereq /\ IdleRoundTrip /\ IdlePlanner
SpecLevels == InitSpecLevels /\ [][NextLevels]_vars

InitSpecWizardSpells ==
  InitWizardSpells /\ IdleCache /\ IdlePrereq /\ IdleRoundTrip /\ IdlePlanner
SpecWizardSpells == InitSpecWizardSpells /\ [][NextWizardSpells]_vars

InitSpecSlotUpdate ==
  InitSlotUpdate /\ IdleCache /\ IdlePrereq /\ IdleRoundTrip /\ IdlePlanner /\ IdleQuery
SpecSlotUpdate == InitSpecSlotUpdate /\ [][NextApply]_vars

(***************************************************************************)
(* Claims about the content cache.                                         *)
(***************************************************************************)
\* The list a loader builds in this installation: the documents of the
\* loader's type of every source that exists and can be read, in source order.
RECURSIVE Gathered(_, _)
Gathered(kind, i) ==
  IF i = 0 THEN <<>>
  ELSE Gathered(kind, i - 1) \o
       (IF Sources(kind)[i] \in packs \ failing
        THEN OfType(PackDocs(Sources(kind)[i]), ItemType(kind))
        ELSE <<>>)

LoadedList(kind) == Gathered(kind, Len(Sources(kind)))

LoadsOf(kind) == {l \in 1..Len(loads) : loads[l].kind = kind}

NoneRejected == \A l \in 1..Len(loads) : loads[l].status # "rejected"

\* C1: as long as nothing was invalidated and no load was rejected, however
\* many getFeats()/getSpells() calls were issued while a load was in flight or
\* after it resolved, each source was read at most once (exactly once, if it
\* exists, when a call of its kind has returned), one load per kind exists, and
\* every returned call was handed that load's list under its own filters.
C1_Coalescing ==
  (clears = 0 /\ NoneRejected) =>
    /\ \A s \in AllSources : reads[s] <= 1
    /\ \A k \in Kinds : Cardinality(LoadsOf(k)) <= 1
    /\ last.kind # Null =>
         /\ last.outcome = "resolved"
         /\ last.from \in LoadsOf(last.kind)
         /\ last.docs = ApplyFilters(last.kind, LoadedList(last.kind), last.filter)
         /\ \A i \in 1..Len(Sources(last.kind)) :
               reads[Sources(last.kind)[i]] =
                 IF Sources(last.kind)[i] \in packs THEN 1 ELSE 0

\* C1 witness: three getFeats() calls have returned, one that started the
\* load, one that joined it in flight and one issued after it resolved, and the
\* last one was handed a non-empty filtered list.
C1_Witness ==
  /\ clears = 0 /\ NoneRejected
  /\ \E a, b, c \in 1..Len(calls) :
       /\ calls[a] = Finished("feats", "initiator")
       /\ calls[b] = Finished("feats", "joined")
       /\ calls[c] = Finished("feats", "cache")
  /\ last.kind = "feats" /\ last.filter # NoFilter /\ Len(last.docs) = 2
  /\ reads["pf2e.feats-srd"] = 1 /\ reads["extra.feats"] = 1

\* C10 (as claimed): a get call issued after an invalidation of its kind is
\* never handed the list of a load that was already in flight at that
\* invalidation, i.e. of a bulk read started before it.
C10_FreshAfterInvalidation ==
  (last.kind # Null /\ last.outcome = "resolved") => ~last.stale


(***************************************************************************)
(* Claims about checkPrerequisites.                                        *)
(***************************************************************************)
\* C4 (as claimed): meets is false if a line is unmet, otherwise null if a
\* line is undecided, otherwise true.
C4_MissingWins ==
  ppc = "done" =>
    meets = (IF Len(missing) > 0 THEN "false" ELSE IF Len(unknown) > 0 THEN "null" ELSE "true")

\* C4 (amended): meets is null if a line is undecided, otherwise false if a
\* line is unmet, otherwise true.
C4_UnknownWins ==
  ppc = "done" =>
    meets = (IF Len(unknown) > 0 THEN "null" ELSE IF Len(missing) > 0 THEN "false" ELSE "true")

\* C4 witness: a check returned with an unmet and an undecided line.
C4_Witness ==
  ppc = "done" /\ Len(missing) > 0 /\ Len(unknown) > 0 /\ meets = "null"

\* C5: meets is never true while missing is non-empty, and is null, not
\* false, while missing is empty and unknown is non-empty.
C5_Monotonic ==
  ppc = "done" =>
    /\ (Len(missing) > 0 => meets # "true")
    /\ (Len(missing) = 0 /\ Len(unknown) > 0 => meets = "null")

\* C5 witness: a check of several lines returned null with a met line and an
\* undecided line and no unmet line.
C5_Witness ==
  /\ ppc = "done" /\ Len(prereqs) > 1
  /\ Len(missing) = 0 /\ Len(unknown) = 1 /\ meets = "null"

(***************************************************************************)
(* Claims about the level applicator.                                      *)
(***************************************************************************)
\* C2: when the apply sequence has run to its end and is run again for the
\* same target level with the same choices, the second run creates no feat
\* item and no spell item: every chosen feat is found again by its name at
\* its location, every chosen or auto-learned spell by its name.
C2_SecondApplyAddsNothing == prevDone => created = 0

\* A second run has ended after a first run that created a feat at the
\* target level and a spell.
C2_Witness ==
  /\ apc = "complete"
  /\ prevDone
  /\ \E k \in 1..Len(items) : items[k].type = "feat" /\ items[k].location[2] = targetLevel
  /\ \E k \in 1..Len(items) : items[k].type = "spell" /\ items[k].coreSourceId # Null

\* C3: every step of the apply sequence is idempotent: a second complete
\* run leaves the level, the skill ranks, the boost sets and the spell
\* slots as the first complete run left them.
C3_SecondApplyKeepsSheet == (apc = "complete" /\ prevDone) => Sheet = before


(***************************************************************************)
(* Claims about the build plan: export and import, the planner.            *)
(***************************************************************************)
\* C6: for every plan createNewPlan produces, under every combination of
\* the four variant rules and every actor level 1..20, importPlan applied
\* to exportPlan of the plan returns a plan deep-equal to it.
C6_RoundTrip == rtpc = "imported" => (~rtBack.threw /\ rtBack.plan = rtPlan)

\* The input lacks version or lacks levels: it is not JSON, not an object,
\* or the property is absent or falsy.
LacksVersionOrLevels(json) ==
  \/ ~json.ok
  \/ json.value.t # "obj"
  \/ "version" \notin DOMAIN json.value.v
  \/ ~Truthy(json.value.v["version"])
  \/ "levels" \notin DOMAIN json.value.v
  \/ ~Truthy(json.value.v["levels"])

\* C7: importPlan throws exactly for the inputs that lack version or lack
\* levels and returns the parsed value otherwise; when it throws in the
\* planner's import, this.buildPlan and the actor's stored plan are as they
\* were before.
C7_ImportRejectsOrReturns ==
  lastImport.op = "import" =>
    /\ lastImport.threw <=> LacksVersionOrLevels(lastImport.input)
    /\ lastImport.threw =>
         (buildPlan = lastImport.memBefore /\ persisted = lastImport.persistedBefore)
    /\ ~lastImport.threw => lastImport.returned = lastImport.input.value

\* An import of a text with a version and no levels has just thrown, while
\* a choice set before it is still waiting for its autosave.
C7_Witness ==
  /\ lastImport.op = "import"
  /\ lastImport.threw
  /\ lastImport.input = JsonText(Obj([version |-> Str("1.0.0")]))
  /\ timers # {}
  /\ buildPlan # persisted

\* C8: no plan operation takes a level of the planner's plan from applied
\* back to not applied.
C8_AppliedNeverCleared ==
  [][getAppliedLevels(buildPlan) \subseteq getAppliedLevels(buildPlan')]_vars

\* The planner is at rest: no timer pending, no write under way, and the
\* stored plan is the plan in memory unless the last write was rejected.
AtRest ==
  /\ timers = {}
  /\ saving = <<>>
  /\ lastSaveOk => persisted = Stored(buildPlan)

\* C9: at most one autosave timer is pending, the timeout callback never
\* runs before the delay has passed since the last _autoSave() call, and in
\* the end the stored plan is the plan in memory, provided the write
\* succeeded.
C9_Debounced ==
  /\ [](Cardinality(timers) <= 1 /\ firedAfter >= Delay)
  /\ <>[]AtRest

\* Two _autoSave() calls were made, and the plan with the chosen feat has
\* been stored.
C9_Witness ==
  /\ nextTimer >= 3
  /\ timers = {}
  /\ saving = <<>>
  /\ lastSaveOk
  /\ persisted = Stored(buildPlan)
  /\ HasLevel(buildPlan, 5)
  /\ Get(ChoicesOf(buildPlan, 5), "classFeats").t = "str"

(***************************************************************************)
(* Claims about missing content sources.                                   *)
(***************************************************************************)
\* A read of a default compendium, which is not inside a try, rejects.
DefaultReadFails(kind) ==
  \E i \in 1..Len(Sources(kind)) :
     /\ ~Guarded(Sources(kind)[i])
     /\ Sources(kind)[i] \in packs \cap failing

SourceMissing(kind) == \E i \in 1..Len(Sources(kind)) : Sources(kind)[i] \notin packs

TableSlots(slug, level, rank) ==
  IF slug \in DOMAIN CLASS_PROGRESSIONS
     /\ level \in DOMAIN CLASS_PROGRESSIONS[slug].spellSlots
     /\ rank \in DOMAIN CLASS_PROGRESSIONS[slug].spellSlots[level]
  THEN CLASS_PROGRESSIONS[slug].spellSlots[level][rank]
  ELSE 0

Ranks == 0..10

\* The ranks whose slots are fewer at the level than at the level before.
ReducedRanks(slug, level) ==
  {rank \in Ranks : TableSlots(slug, level - 1, rank) > TableSlots(slug, level, rank)}

\* C12: for a class of the table and a level from 2 to 20,
\* getLostSpellSlotsAtLevel has a key for exactly the ranks whose slots are
\* fewer than at the level before, with the deficit as value; and a rank is
\* reduced only for the wave casters magus and summoner.
C12_LostSlots ==
  (/\ qcall.fn = "getLostSpellSlotsAtLevel"
   /\ qcall.arg \in DOMAIN CLASS_PROGRESSIONS
   /\ qcall.level >= 2) =>
     LET slug == qcall.arg
         level == qcall.level
         lost == qcall.result.value
     IN /\ ~qcall.result.threw
        /\ DOMAIN lost = ReducedRanks(slug, level)
        /\ \A rank \in DOMAIN lost :
              lost[rank] = TableSlots(slug, level - 1, rank) - TableSlots(slug, level, rank)
        /\ ReducedRanks(slug, level) # {} => slug \in {"magus", "summoner"}

\* C12 witness: a magus reaching level 5 loses the two slots of rank 1.
C12_Witness ==
  /\ qcall.fn = "getLostSpellSlotsAtLevel" /\ qcall.arg = "magus" /\ qcall.level = 5
  /\ qcall.result.value = (1 :> 2)

\* The slots of a rank gained at a level: all of them at level 1.
GainedSlots(slug, level, rank) ==
  IF level = 1 THEN TableSlots(slug, 1, rank)
  ELSE IF TableSlots(slug, level, rank) > TableSlots(slug, level - 1, rank)
  THEN TableSlots(slug, level, rank) - TableSlots(slug, level - 1, rank)
  ELSE 0

RECURSIVE SumGained(_, _, _)
SumGained(slug, level, rank) ==
  IF rank = 0 THEN 0
  ELSE SumGained(slug, level, rank - 1) + GainedSlots(slug, level, rank)

ZeroObligation(r) == r.totalSpells = 0 /\ DOMAIN r.byRank = {} /\ r.highestRank = 0

\* C13: getSpellsToLearnAtLevel follows the learning rule of the actor's
\* class: nothing for auto, for a class without a table entry and for an actor
\* without a class; 2 spells at the highest rank with slots for prepared; one
\* spell per gained slot of each rank for spontaneous, totalSpells being their
\* sum and highestRank the highest rank that gained a slot; a wizard at level
\* 3 gets totalSpells 2, byRank {2: 2}, highestRank 2.
C13_SpellsToLearn ==
  qcall.fn = "getSpellsToLearnAtLevel" =>
    LET r == qcall.result.value
        level == qcall.level
        slug == IF qactor.classItem = NoClass THEN Null ELSE SlugOrName(qactor.classItem)
        rule == IF slug \in DOMAIN CLASS_PROGRESSIONS
                THEN CLASS_PROGRESSIONS[slug].learningRule ELSE Null
        withSlots == {rank \in 1..10 : TableSlots(slug, level, rank) > 0}
        gaining == {rank \in 1..10 : GainedSlots(slug, level, rank) > 0}
    IN /\ ~qcall.result.threw
       /\ rule \in {Null, "auto"} => ZeroObligation(r)
       /\ rule = "prepared" =>
             /\ withSlots # {}
             /\ r.totalSpells = 2
             /\ DOMAIN r.byRank = {r.highestRank}
             /\ r.byRank[r.highestRank] = 2
             /\ r.highestRank \in withSlots
             /\ \A rank \in withSlots : rank <= r.highestRank
       /\ rule = "spontaneous" =>
             /\ DOMAIN r.byRank = gaining
             /\ \A rank \in gaining : r.byRank[rank] = GainedSlots(slug, level, rank)
             /\ r.totalSpells = SumGained(slug, level, 10)
             /\ r.highestRank \in gaining \cup {0}
             /\ \A rank \in gaining : rank <= r.highestRank
       /\ (slug = "wizard" /\ level = 3) =>
             /\ r.totalSpells = 2 /\ r.byRank = (2 :> 2) /\ r.highestRank = 2

\* C13 witness: a sorcerer at level 3 learns three spells of rank 2, one
\* for each slot gained.
C13_Witness ==
  /\ qcall.fn = "getSpellsToLearnAtLevel" /\ qcall.level = 3
  /\ qactor.classItem # NoClass /\ qactor.classItem.slug = "sorcerer"
  /\ qcall.result.value.totalSpells = 3
  /\ qcall.result.value.byRank = (2 :> 3)
  /\ qcall.result.value.highestRank = 2

(***************************************************************************)
(* Claims about the level requirement resolvers.                           *)
(***************************************************************************)
\* The setting detectAbilityBoosts and getCurrentBoostSet read says 'enabled'.
GradualRegime ==
  SettingsHas("pf2e.gradualBoosts") /\ qhost.settings["pf2e.gradualBoosts"] = Str("enabled")

Opens(info) == info.hasBoosts /\ info.count = 4 /\ info.isPartial /\ ~info.completing

Completes(info) == info.hasBoosts /\ info.count = 0 /\ info.completing

\* The completing levels after an opening level that getCurrentBoostSet puts
\* in the same boost set.
CompletionsOf(level) ==
  {l \in Levels :
     /\ l > level
     /\ Completes(detectAbilityBoosts(qactor, l).value)
     /\ getCurrentBoostSet(qactor, l).value = getCurrentBoostSet(qactor, level).value}

\* C14 (as claimed): under gradual boosts detectAbilityBoosts opens a boost
\* set (count 4, partial) at exactly the even levels and completes one (count
\* 0, completing) at exactly levels 3, 7, 13 and 17; every opening level has
\* exactly one completing level of its boost set after it, and the counts of
\* the two add up to 4.
C14_GradualPairing ==
  (qcall.fn = "detectAbilityBoosts" /\ GradualRegime) =>
    LET info == qcall.result.value
        level == qcall.level
    IN /\ ~qcall.result.threw
       /\ Opens(info) <=> level \in {2, 4, 6, 8, 10, 12, 14, 16, 18, 20}
       /\ Completes(info) <=> level \in {3, 7, 13, 17}
       /\ Opens(info) =>
             /\ Cardinality(CompletionsOf(level)) = 1
             /\ \A l \in CompletionsOf(level) :
                   info.count + detectAbilityBoosts(qactor, l).value.count = 4

\* C15 (as claimed): for an actor without a class item no resolver throws
\* and each returns its zero value: no feat slots, no boosts, 0 skill
\* increases and no spells to learn.
C15_NoClassZero ==
  (/\ qactor.classItem = NoClass
   /\ qcall.fn \in {"getFeatSlotsForLevel", "detectAbilityBoosts",
                    "getSkillIncreasesForLevel", "getSpellsToLearnAtLevel"}) =>
     /\ ~qcall.result.threw
     /\ qcall.fn = "getFeatSlotsForLevel" =>
           \A key \in DOMAIN qcall.result.value : qcall.result.value[key] = 0
     /\ qcall.fn = "detectAbilityBoosts" =>
           ~qcall.result.value.hasBoosts /\ qcall.result.value.count = 0
     /\ qcall.fn = "getSkillIncreasesForLevel" => qcall.result.value = 0
     /\ qcall.fn = "getSpellsToLearnAtLevel" => ZeroObligation(qcall.result.value)

\* The four categories whose slot comes from a level array of the class item.
ClassArrays ==
  ("class" :> "classFeatLevels") @@ ("ancestry" :> "ancestryFeatLevels")
  @@ ("skill" :> "skillFeatLevels") @@ ("general" :> "generalFeatLevels")

\* Each of the four categories has 1 slot if the level is in its array and 0
\* otherwise.
ArraySlotsRight(featSlots, level) ==
  \A key \in DOMAIN ClassArrays :
     /\ key \in DOMAIN featSlots
     /\ featSlots[key] = IF Includes(LevelsOf(qactor.classItem, ClassArrays[key]), level)
                         THEN 1 ELSE 0

\* What detectVariantRules() reports for the rule behind a variant slot.
RuleReported(key) ==
  CASE key = "archetype" -> detectVariantRules.freeArchetype
    [] key = "mythic" -> detectVariantRules.mythic = Str("enabled")
    [] key = "ancestryParagon" -> detectVariantRules.ancestryParagon
    [] key = "dualClass" -> detectVariantRules.dualClass

VariantKeys == {"archetype", "mythic", "ancestryParagon", "dualClass"}

\* C16 (as claimed): for an actor with a class item getFeatSlotsForLevel
\* returns, for class, ancestry, skill and general, 1 if the level is in the
\* class item's array and 0 otherwise, and it has a slot entry for archetype,
\* mythic, ancestry paragon and dual class exactly when detectVariantRules()
\* reports the rule as enabled on the same host (calls that returned).
C16_FeatSlots ==
  (/\ qcall.fn = "getFeatSlotsForLevel"
   /\ qactor.classItem # NoClass
   /\ ~qcall.result.threw) =>
     /\ ArraySlotsRight(qcall.result.value, qcall.level)
     /\ \A key \in VariantKeys : key \in DOMAIN qcall.result.value <=> RuleReported(key)

(***************************************************************************)
(* Claims about the feat queries.                                          *)
(***************************************************************************)
\* The traits a feat carries and the traits a call asks for, normalised.
TraitsOf(feat) == {normalizeString(feat.traits[k]) : k \in 1..Len(feat.traits)}
QueriedTraits(searchQueries) ==
  {normalizeString(searchQueries[k]) : k \in 1..Len(searchQueries)}

\* The names the actor owns, in lower case.
OwnedNames == {featNameLower(qactor.feats[k]) : k \in 1..Len(qactor.feats)}

\* The levels at which the mythic category asks for destiny feats.
DestinyQueryLevels ==
  {l \in Levels : IncludesStr(SearchQuery(qactor, "mythic", l, Null), "destiny")}

\* What the contract of filterFeats keeps.
ContractKeeps(feat) ==
  /\ \/ TraitsOf(feat) \cap QueriedTraits(qcall.arg) # {}
     \/ IncludesStr(loadManualArchetypeFeats, feat.slug)
  /\ feat.level <= qcall.level
  /\ ~(/\ featNameLower(feat.name) \in OwnedNames
       /\ feat.maxTakable \in {0, 1})
  /\ ~("destiny" \in TraitsOf(feat) /\ qcall.level \notin DestinyQueryLevels)

DestinyOffered(result) ==
  {k \in 1..Len(result) : "destiny" \in TraitsOf(result[k])}

\* C18: for the mythic category the query holds destiny exactly at the level
\* the mythic tier progression gives tier 3, and at every other level no
\* destiny feat is offered.
C18_DestinyAtTier3 ==
  (qcall.fn = "getFeatsForLevel" /\ qcall.arg[1] = "mythic") =>
    /\ Get(detectMythicTierProgression, 3) = Num(getLevelForMythicTier(3))
    /\ IncludesStr(SearchQuery(qactor, "mythic", qcall.level, qcall.arg[2]), "destiny")
         <=> qcall.level = getLevelForMythicTier(3)
    /\ qcall.level # getLevelForMythicTier(3) => DestinyOffered(qcall.result.value) = {}

(***************************************************************************)
(* Claims about the spell queries.                                         *)
(***************************************************************************)
\* The names of the spells the actor knows, in lower case.
KnownSpellNames ==
  {LowerCase(qactor.items[k].name) :
     k \in {j \in 1..Len(qactor.items) : qactor.items[j].type = "spell"}}

\* What holds of every returned spell whatever the options: its rank, its
\* tradition, and its rarity unless uncommon spells were asked for.
RankTraditionRarity(spell) ==
  /\ spell.rank = qcall.level
  /\ getSpellTradition(qactor) \in spell.traditions
  /\ ~qcall.arg[1] => spell.rarity = "common"

\* C19 as stated: every spell getSpellsForRank returns has the requested
\* rank, the actor's resolved tradition, common rarity unless uncommon spells
\* were included, and a name the actor does not already know; without a
\* tradition the result is empty.
C19_SpellsForRank ==
  qcall.fn = "getSpellsForRank" =>
    /\ \A k \in 1..Len(qcall.result.value) :
         /\ RankTraditionRarity(qcall.result.value[k])
         /\ LowerCase(qcall.result.value[k].name) \notin KnownSpellNames
    /\ getSpellTradition(qactor) = Null => qcall.result.value = <<>>

\* C19 amended: known spells are left out when the call sets excludeKnown;
\* the other conditions hold for every call.
C19_SpellsForRankAmended ==
  qcall.fn = "getSpellsForRank" =>
    /\ \A k \in 1..Len(qcall.result.value) :
         /\ RankTraditionRarity(qcall.result.value[k])
         /\ qcall.arg[2] => LowerCase(qcall.result.value[k].name) \notin KnownSpellNames
    /\ getSpellTradition(qactor) = Null => qcall.result.value = <<>>

\* C19 witness: a divine sorcerer who knows "bless" asks for rank 1 spells
\* with uncommon ones included and known ones excluded: Bless is left out,
\* the uncommon Infuse Vitality is returned.
C19_Witness ==
  /\ qcall.fn = "getSpellsForRank"
  /\ qcall.level = 1
  /\ qcall.arg = <<TRUE, TRUE>>
  /\ "bless" \in KnownSpellNames
  /\ [k \in 1..Len(qcall.result.value) |-> qcall.result.value[k].name]
       = <<"Infuse Vitality">>

\* The entry the cascade chooses for the actor, and the step that found it.
ChosenEntry == getClassSpellcastingEntry(qactor)

ChosenStep ==
  IF ChosenEntry = NotFound THEN 0
  ELSE CHOOSE step \in 1..6 :
         /\ EntryMatches(qactor, step) # {}
         /\ \A earlier \in 1..(step - 1) : EntryMatches(qactor, earlier) = {}

FocusNamed(item) == StrIncludes(LowerCase(item.name), "focus")

EntryRecordsTradition == ChosenEntry # NotFound /\ ~Falsy(ChosenEntry.tradition)

\* The names the actor owns, of any item type, in lower case.
OwnedItemNames == {LowerCase(qactor.items[k].name) : k \in 1..Len(qactor.items)}

\* The tradition of the actor's class when no entry decides.
ClassTableTradition ==
  LET classItem == ClassOf(qactor)
      slug == getClassSlug(classItem)
      patrons == {k \in 1..Len(qactor.items) :
                    /\ qactor.items[k].type = "feat"
                    /\ qactor.items[k].category = "classfeature"
                    /\ StrIncludes(LowerCase(qactor.items[k].name), "patron")}
  IN CASE classItem = NotFound -> Null
       [] slug = "sorcerer" ->
            IF \A n \in OwnedItemNames : ~StrIncludes(n, "bloodline") THEN "arcane"
            ELSE IF "draconic bloodline" \in OwnedItemNames THEN "arcane"
            ELSE getSorcererTradition(qactor)
       [] slug = "witch" ->
            IF patrons # {} /\ ~Falsy(qactor.items[FirstOf(patrons)].tradition)
            THEN qactor.items[FirstOf(patrons)].tradition
            ELSE "occult"
       [] OTHER -> ClassTradition(qactor, slug)

\* The part of C20 without the remark on focus entries: the chosen entry's
\* recorded tradition, else the class-table tradition.
EntryElseClassTable ==
  qcall.fn = "getSpellTradition" =>
    IF EntryRecordsTradition
    THEN qcall.result.value = ChosenEntry.tradition
    ELSE qcall.result.value = ClassTableTradition

\* C20: getSpellTradition returns the tradition recorded on the entry the
\* cascade chooses, a focus-named entry being chosen only by the last step;
\* when the chosen entry records none it returns the class-table tradition
\* (sorcerer by bloodline keyword, default arcane; witch by the patron's
\* tradition, default occult; null without a class).
C20_SpellTradition ==
  /\ EntryElseClassTable
  /\ qcall.fn = "getSpellTradition" =>
       ((ChosenEntry # NotFound /\ FocusNamed(ChosenEntry)) => ChosenStep = 6)

(***************************************************************************)
(* Claims about variant-rule drift.                                        *)
(***************************************************************************)
RuleFields ==
  {"freeArchetype", "gradualBoosts", "ancestryParagon", "dualClass", "mythic", "abp"}

\* The fields in which the two rule sets of the call differ.
DifferingFields ==
  {f \in RuleFields : qcall.arg[1][f] # qcall.arg[2][f]}

\* The name compareVariantRules gives a field, and the warning
\* validateVariantRulesCompatibility has for it.
RuleName(f) ==
  CASE f = "freeArchetype" -> "Free Archetype"
    [] f = "gradualBoosts" -> "Gradual Ability Boosts"
    [] f = "ancestryParagon" -> "Ancestry Paragon"
    [] f = "dualClass" -> "Dual Class"
    [] f = "mythic" -> "Mythic"
    [] OTHER -> "Automatic Bonus Progression"

WarningFor(f) ==
  CASE f = "freeArchetype" -> "Build plan expects Free Archetype but it is disabled"
    [] f = "mythic" -> "Build plan expects Mythic but it is disabled"
    [] f = "dualClass" -> "Build plan expects Dual Class but it is disabled"
    [] f = "gradualBoosts" -> "Gradual Ability Boosts setting has changed"
    [] f = "ancestryParagon" -> "Ancestry Paragon setting has changed"
    [] OTHER -> "Automatic Bonus Progression setting has changed"

\* compareVariantRules surfaces every differing field, once.
CompareSurfaces ==
  qcall.fn = "compareVariantRules" =>
    LET differences == qcall.result.value.differences
    IN /\ qcall.result.value.matches = (DifferingFields = {})
       /\ Len(differences) = Cardinality(DifferingFields)
       /\ {differences[k].rule : k \in 1..Len(differences)}
            = {RuleName(f) : f \in DifferingFields}

\* validateVariantRulesCompatibility surfaces every differing field.
ValidateSurfaces ==
  qcall.fn = "validateVariantRulesCompatibility" =>
    LET warnings == qcall.result.value.warnings
    IN /\ DifferingFields # {} => ~qcall.result.value.compatible
       /\ \A f \in DifferingFields : \E k \in 1..Len(warnings) : warnings[k] = WarningFor(f)

\* C21: whenever the plan's snapshot and the live rules differ in one of the
\* six fields, in either direction, compareVariantRules reports matches =
\* false with one difference per differing field, and
\* validateVariantRulesCompatibility reports compatible = false with a
\* warning for each differing field.
C21_DriftSurfaced == CompareSurfaces /\ ValidateSurfaces

\* BuildPlanManager.getLevelChoices(plan, level)
getLevelChoices(plan, level) ==
  IF ~Truthy(plan) \/ ~Truthy(Get(plan, "levels"))
     \/ ~Truthy(Get(Get(plan, "levels"), level))
  THEN JsNull
  ELSE Get(Get(Get(plan, "levels"), level), "choices")

\* a || b || ... : the first truthy operand, else the last one.
RECURSIVE OrChain(_)
OrChain(operands) ==
  IF Len(operands) = 1 \/ Truthy(Head(operands)) THEN Head(operands)
  ELSE OrChain(Tail(operands))

\* list && list.length > 0
NonEmptyList(list) ==
  IF ~Truthy(list) THEN list
  ELSE Bool(list.t = "arr" /\ Len(list.v) > 0)

\* spells && Object.values(spells).some(arr => arr.length > 0)
SomeSpells(spells) ==
  IF ~Truthy(spells) THEN spells
  ELSE Bool(/\ spells.t = "obj"
            /\ \E k \in DOMAIN spells.v : spells.v[k].t = "arr" /\ Len(spells.v[k].v) > 0)

\* BuildPlanManager.hasChoicesForLevel(plan, level)
hasChoicesForLevel(plan, level) ==
  LET levelChoices == getLevelChoices(plan, level)
  IN IF ~Truthy(levelChoices) THEN Bool(FALSE)
     ELSE OrChain(<< Get(levelChoices, "classFeats"),
                     Get(levelChoices, "ancestryFeats"),
                     Get(levelChoices, "skillFeats"),
                     Get(levelChoices, "generalFeats"),
                     Get(levelChoices, "freeArchetypeFeats"),
                     Get(levelChoices, "mythicFeats"),
                     Get(levelChoices, "dualClassFeats"),
                     NonEmptyList(Get(levelChoices, "skillIncreases")),
                     NonEmptyList(Get(levelChoices, "abilityBoosts")),
                     SomeSpells(Get(levelChoices, "spells")) >>)

(***************************************************************************)
(* Claims about the plan's choices.                                        *)
(***************************************************************************)
\* A value under a key of the choices that records a choice: a uuid, a
\* non-empty list, or an object holding a non-empty list.
IsChoice(value) ==
  CASE value.t = "str" -> value.v # ""
    [] value.t = "arr" -> Len(value.v) > 0
    [] value.t = "obj" ->
         \E k \in DOMAIN value.v : value.v[k].t = "arr" /\ Len(value.v[k].v) > 0
    [] OTHER -> FALSE

\* The level records at least one choice.
RecordsChoice(plan, level) ==
  \E key \in DOMAIN ChoicesOf(plan, level).v : IsChoice(ChoicesOf(plan, level).v[key])

\* C22: hasChoicesForLevel(plan, level) is truthy exactly when the level
\* records at least one choice (a feat of any category, a skill increase,
\* an ability boost or a selected spell), whatever its applied flag.
C22_HasChoices ==
  \A level \in 1..20 :
    HasLevel(buildPlan, level) =>
      (Truthy(hasChoicesForLevel(buildPlan, level)) <=> RecordsChoice(buildPlan, level))

\* The levels whose only recorded choices the predicate misses are those
\* under a key it does not read.
HasChoicesReadsItsKeys ==
  \A level \in 1..20 :
    HasLevel(buildPlan, level) =>
      (Truthy(hasChoicesForLevel(buildPlan, level)) <=>
         \E key \in DOMAIN ChoicesOf(buildPlan, level).v
                    \cap {"classFeats", "ancestryFeats", "skillFeats", "generalFeats",
                          "freeArchetypeFeats", "mythicFeats", "dualClassFeats",
                          "skillIncreases", "abilityBoosts", "spells"} :
           IsChoice(ChoicesOf(buildPlan, level).v[key]))


(***************************************************************************)
(* C23                                                                      *)
(***************************************************************************)
\* A level's choices violate a requirement: they are missing, a required
\* feat slot is empty, or the number of ability boosts or of skill increases
\* differs from the number the level asks for.
ViolatesRequirement(actor, plan, level) ==
  LET levelChoices == Get(Get(Get(plan, "levels"), level), "choices")
      featSlots == getFeatSlotsForLevel(actor, level).value
      boostInfo == detectAbilityBoosts(actor, level).value
      expectedSkills == getSkillIncreasesForLevel(actor, level)
      Missing(slot, key) == HasSlot(featSlots, slot) /\ ~Truthy(Get(levelChoices, key))
  IN \/ ~Truthy(levelChoices)
     \/ Missing("class", "classFeats")
     \/ Missing("ancestry", "ancestryFeats")
     \/ Missing("skill", "skillFeats")
     \/ Missing("general", "generalFeats")
     \/ /\ boostInfo.hasBoosts /\ boostInfo.count > 0
        /\ LengthOr0(Get(levelChoices, "abilityBoosts")) # boostInfo.count
     \/ /\ expectedSkills > 0
        /\ LengthOr0(Get(levelChoices, "skillIncreases")) # expectedSkills

\* The settings reads of the level helpers succeed on this host.
HelpersAnswer == \A level \in Levels : ~getFeatSlotsForLevel(qactor, level).threw
                                       /\ ~detectAbilityBoosts(qactor, level).threw

ValidatedPlan == qcall.fn = "validateBuildPlan" /\ Truthy(qcall.arg) /\ Truthy(Get(qcall.arg, "levels"))

\* C23: validateBuildPlan never throws; over a plan with levels it gives an
\* error entry to exactly the levels in 1..20 whose choices violate a
\* requirement (too few or too many ability boosts or skill increases
\* included); valid is true only when no level has an error entry.
C23_ValidateBuildPlan ==
  qcall.fn = "validateBuildPlan" =>
    /\ ~qcall.result.threw
    /\ ValidatedPlan =>
         \A level \in Levels :
           level \in DOMAIN qcall.result.value.levelErrors
             <=> ViolatesRequirement(qactor, qcall.arg, level)
    /\ qcall.result.value.valid => DOMAIN qcall.result.value.levelErrors = {}

\* What holds of validateBuildPlan: when it returns, every level with an
\* error entry violates a requirement, every level with missing choices,
\* an empty required feat slot, a wrong number of ability boosts or too few
\* skill increases has an entry, and valid is true only without entries.
ValidateBuildPlanReports ==
  (qcall.fn = "validateBuildPlan" /\ ~qcall.result.threw) =>
    /\ qcall.result.value.valid => DOMAIN qcall.result.value.levelErrors = {}
    /\ ValidatedPlan =>
         \A level \in Levels :
           LET levelChoices == Get(Get(Get(qcall.arg, "levels"), level), "choices")
               expectedSkills == getSkillIncreasesForLevel(qactor, level)
               surplusOnly ==
                 /\ expectedSkills > 0
                 /\ LengthOr0(Get(levelChoices, "skillIncreases")) > expectedSkills
           IN /\ level \in DOMAIN qcall.result.value.levelErrors
                   => ViolatesRequirement(qactor, qcall.arg, level)
              /\ (ViolatesRequirement(qactor, qcall.arg, level) /\ ~surplusOnly)
                   => level \in DOMAIN qcall.result.value.levelErrors

\* validateBuildPlan returns whenever the helpers' settings are registered.
ValidateBuildPlanReturns ==
  (qcall.fn = "validateBuildPlan" /\ HelpersAnswer) => ~qcall.result.threw

\* A plan with more skill increases than the level asks for passes.
SurplusPasses ==
  /\ ValidatedPlan /\ ~qcall.result.threw
  /\ \E level \in Levels :
       /\ ViolatesRequirement(qactor, qcall.arg, level)
       /\ level \notin DOMAIN qcall.result.value.levelErrors

ValidateThrew == qcall.fn = "validateBuildPlan" /\ qcall.result.threw


(***************************************************************************)
(* C24                                                                      *)
(***************************************************************************)
NoDuplicate(array) == \A j, k \in 1..Len(array) : array[j] = array[k] => j = k

PlannerList(level, key) ==
  IF HasLevel(buildPlan, level) /\ Get(ChoicesOf(buildPlan, level), key).t = "arr"
    THEN Get(ChoicesOf(buildPlan, level), key).v
    ELSE <<>>

\* The number of boosts the wizard's level asks for: 0 when it cannot be
\* read.
WizardBoostCount ==
  IF detectAbilityBoosts(qactor, targetLevel).threw THEN 0
  ELSE detectAbilityBoosts(qactor, targetLevel).value.count

WizardListsFull ==
  /\ Len(choices.abilityBoosts) = 4
  /\ Len(choices.skillIncreases) = 3


(***************************************************************************)
(* C25                                                                      *)
(***************************************************************************)
\* C25: after any sequence of level applications every skill's proficiency
\* rank is within 0..4: no increase is applied to a skill that is already
\* legendary (rank 4).
C25_RanksWithinRange == \A s \in DOMAIN skills : skills[s] \in 0..4

\* What the skill step does: a run that reaches the boost step has raised
\* every chosen skill by one and left the others alone, whatever the rank.
SkillStepAddsOne ==
  [][(apc = "skills" /\ apc' = "boosts") =>
       \A s \in DOMAIN skills :
         skills'[s] = skills[s] + (IF \E k \in 1..Len(choices.skillIncreases) :
                                        choices.skillIncreases[k] = s
                                     THEN 1 ELSE 0)]_vars

\* A legendary skill has been raised.
RankFive == \E s \in DOMAIN skills : skills[s] = 5


(***************************************************************************)
(* C26                                                                      *)
(***************************************************************************)
\* C26: no eligibility query modifies the content cache: after any sequence
\* of getFeats, getSpells, filterFeats and getFeatsForLevel calls the cached
\* feat and spell documents, their fields and their order are what the bulk
\* read loaded.
C26_CacheUntouched ==
  /\ cache["feats"].docs = FeatCache
  /\ cache["spells"].docs = SpellPack

\* What holds: the cached spells, the order of the cached feats and every
\* field of them but isArchetypeFeat stay as loaded.
CacheButFlagUntouched ==
  /\ cache["spells"].docs = SpellPack
  /\ Len(cache["feats"].docs) = Len(FeatCache)
  /\ \A k \in 1..Len(FeatCache) :
       [cache["feats"].docs[k] EXCEPT !.isArchetypeFeat = JsUndefined] = FeatCache[k]

\* Only getFeatsForLevel for type 'class' writes to a cached feat.
OnlyClassQueryWrites ==
  [][cache' # cache => (qcall'.fn = "getFeatsForLevel" /\ qcall'.arg[1] = "class")]_vars

\* A later filterFeats call returns a feat carrying the flag of an earlier
\* getFeatsForLevel call.
StaleFlagReturned ==
  /\ qcall.fn = "filterFeats"
  /\ ~qcall.result.threw
  /\ \E k \in 1..Len(qcall.result.value) : qcall.result.value[k].isArchetypeFeat = Bool(TRUE)


(***************************************************************************)
(* C27                                                                      *)
(***************************************************************************)
\* The boost step of the running submit is over.
BoostsWritten == apc \in {"spells", "slots", "autolearn", "complete"}

\* The smallest milestone that is at least the level.
Milestone(level) == CHOOSE m \in {5, 10, 15, 20} : m >= level /\ \A n \in {5, 10, 15, 20} : n >= level => m <= n

\* The boost selections of a level are written into the bucket of the
\* smallest milestone at or above the target level.
WrittenToMilestone ==
  (BoostsWritten /\ Len(choices.abilityBoosts) > 0) =>
    boosts[Milestone(targetLevel)] = choices.abilityBoosts

\* C27: applying a level writes its boosts into the bucket of the smallest
\* milestone at or above the target level and leaves the boosts applied at
\* every other level intact: under the standard and under the gradual rule
\* no bucket that holds the boosts of an earlier level is written again.
C27_BoostBuckets ==
  /\ WrittenToMilestone
  /\ \A b \in {5, 10, 15, 20} :
       before.boosts[b] # <<>> => boosts[b] = before.boosts[b]

\* Under the standard rule the boosts of an earlier level stay.
StandardRuleKeepsBuckets ==
  qhost = HelperKeysOff =>
    \A b \in {5, 10, 15, 20} : before.boosts[b] # <<>> => boosts[b] = before.boosts[b]

\* Level 10 has been applied after level 5, each with its boosts.
TwoBucketsFilled == boosts[5] # <<>> /\ boosts[10] # <<>> /\ apc = "complete"

\* Under the gradual rule the boosts of level 4 have replaced those of level 2.
GradualOverwrite ==
  /\ qhost = HelperKeysOn
  /\ targetLevel = 4
  /\ before.boosts[5] # <<>>
  /\ boosts[5] # before.boosts[5]


(***************************************************************************)
(* C28                                                                      *)
(***************************************************************************)
Confirmed == qcall.fn = "onConfirm"

\* The confirmed list is held under the selector's key.
ConfirmedRecorded ==
  /\ qcall.arg \in DOMAIN choices
  /\ choices[qcall.arg] = qcall.result.value

\* Every spell of the confirmed list is on the actor.
ConfirmedOwned ==
  \A k \in 1..Len(qcall.result.value) :
    LET spell == fromUuid(qcall.result.value[k])
    IN spell.status = "doc" => ExistingSpell(items, spell.doc.uuid, spell.doc.name)

\* C28: every spell list the user confirms in the wizard's spell selector
\* is recorded in the session's choices under the selector's key, whether
\* or not the choices were loaded from a plan, and every recorded spell is
\* on the actor once the submit is complete.
C28_ConfirmedSpells ==
  Confirmed => /\ ConfirmedRecorded
               /\ apc = "complete" => ConfirmedOwned

\* What holds: a list confirmed under a key the choices already have is
\* recorded and granted.
ConfirmedUnderHeldKey ==
  (Confirmed /\ qcall.arg \in DOMAIN choices) =>
     /\ ConfirmedRecorded
     /\ apc = "complete" => ConfirmedOwned

\* A confirmed list is held only if the loaded plan had the key.
ConfirmedLost == Confirmed /\ qcall.arg \notin DOMAIN choices /\ apc = "complete"

ConfirmedGranted ==
  /\ Confirmed /\ ConfirmedRecorded /\ apc = "complete" /\ created > 0


(***************************************************************************)
(* C29                                                                      *)
(***************************************************************************)
LearnCall == qcall.fn = "getSpellsToLearnAtLevel"

InTable(actor) ==
  actor.classItem # NoClass /\ SlugOrName(actor.classItem) \in DOMAIN CLASS_PROGRESSIONS

\* C29: for every class of the progression table and every level 1..20 the
\* spells to learn are of one rank: totalSpells of getSpellsToLearnAtLevel
\* is 0 or equals byRank[highestRank].
C29_SingleRankObligation ==
  (LearnCall /\ InTable(qactor)) =>
    LET learn == qcall.result.value
    IN \/ learn.totalSpells = 0
       \/ /\ learn.highestRank \in DOMAIN learn.byRank
          /\ learn.totalSpells = learn.byRank[learn.highestRank]

\* What holds for the prepared and the auto-learning classes.
PreparedSingleRank ==
  (LearnCall /\ InTable(qactor) /\ qcall.result.value.learningRule # "spontaneous") =>
    LET learn == qcall.result.value
    IN \/ learn.totalSpells = 0
       \/ /\ learn.highestRank \in DOMAIN learn.byRank
          /\ learn.totalSpells = learn.byRank[learn.highestRank]

\* What holds for every class: totalSpells is the sum of byRank, and
\* highestRank is the highest rank of byRank.
TotalIsSumByRank ==
  LearnCall =>
    LET learn == qcall.result.value
    IN /\ learn.totalSpells = SumByRank([rank \in 1..10 |-> SlotsOr0(learn.byRank, rank)], 10)
       /\ learn.highestRank = MaxKey(learn.byRank)

\* C29 witness: a spontaneous caster past level 1 owes several spells, all of
\* its new highest rank.
C29_Witness ==
  /\ LearnCall /\ InTable(qactor)
  /\ qcall.level > 1
  /\ qcall.result.value.learningRule = "spontaneous"
  /\ qcall.result.value.totalSpells >= 2
  /\ qcall.result.value.highestRank >= 2


(***************************************************************************)
(* C30                                                                      *)
(***************************************************************************)
HasTable == classSlug # Null /\ classSlug \in DOMAIN CLASS_PROGRESSIONS

SlotStepDone == apc \in {"autolearn", "complete"}

\* For a class of the table the slot step writes the table's counts for the
\* target level, 0 for the ranks a wave-caster has lost.
TableSlotsWritten ==
  (HasTable /\ entry # NoEntry /\ SlotStepDone) =>
    \A rank \in 1..10 :
      /\ slots[rank].max = SlotsOr0(CLASS_PROGRESSIONS[classSlug].spellSlots[targetLevel], rank)
      /\ slots[rank].value = slots[rank].max

\* C30: a submit for an actor whose class has no progression-table entry
\* leaves the slot maxima and current values of its spellcasting entry
\* unchanged; slots are rewritten only for a class of the table, to the
\* table's counts for the target level.
C30_SlotsOnlyFromTable ==
  /\ ~HasTable => slots = before.slots
  /\ TableSlotsWritten

\* The entry of a class without a table has been emptied.
ForeignSlotsZeroed ==
  /\ ~HasTable
  /\ SlotStepDone
  /\ before.slots[1].max > 0
  /\ \A rank \in 1..10 : slots[rank] = [max |-> 0, value |-> 0]

\* The magus has lost its first-rank slots at level 5.
WaveCasterLost ==
  /\ classSlug = "magus" /\ SlotStepDone
  /\ before.slots[1].max > 0 /\ slots[1].max = 0

====
